---- MODULE Spec2Model ----
(***************************************************************************)
(* Model of the dependency provenance action: the registry lookups of      *)
(* src/lib/provenance.ts (hasProvenance, getProvenanceDetails,             *)
(* hasTrustedPublisher, each memoised in a cache passed by the caller) and *)
(* the detector `run` of src/lib/git.ts that drives them over the changed  *)
(* packages of a lockfile diff.                                            *)
(***************************************************************************)
EXTENDS Integers, Sequences, FiniteSets, TLC

VARIABLES
  app,                     \* a helper function applied on its own: arguments and result
  inputs,                  \* INPUT_* environment read by getInput
  env,                     \* lockfile / git environment of the run
  previousDeps,            \* VersionsSet parsed from the base lockfile
  currentDeps,             \* VersionsSet parsed from the head lockfile
  changed,                 \* result of diffDependencySets
  pc,                      \* position of run (or of the lookup client)
  ci, vi, pi,              \* loop positions: change, new version, previous version
  hasProvNew, newDetails, hasTPNew,
  events, warnings,
  provenanceCache, provenanceDetailsCache, trustedPublisherCache,
  calls,                   \* the pending / settled lookup call of each function
  requests,                \* every registry request issued so far
  history,                 \* per function: first value returned for each key
  outputs, annotations, exitCode

vars == << app, inputs, env, previousDeps, currentDeps, changed, pc, ci, vi, pi,
           hasProvNew, newDetails, hasTPNew, events, warnings,
           provenanceCache, provenanceDetailsCache, trustedPublisherCache,
           calls, requests, history, outputs, annotations, exitCode >>

-----------------------------------------------------------------------------
(* Bounds and universes *)

MaxAtts == 2              \* longest attestation list a response carries
MaxEntries == 3           \* most (package, version) entries of the two lockfiles together
MaxHead == 1              \* most versions of one package in the head lockfile

None == "none"            \* JavaScript undefined / absent field

Names == {"a", "b"}
Versions == {"1", "2", "3", "4"}

Slots == {"prov", "det", "tp"}

-----------------------------------------------------------------------------
(* String helpers (JavaScript String methods used by the source) *)

StartsWith(s, p) == Len(s) >= Len(p) /\ SubSeq(s, 1, Len(p)) = p

EndsWith(s, p) == Len(s) >= Len(p) /\ SubSeq(s, Len(s) - Len(p) + 1, Len(s)) = p

\* s.lastIndexOf(sub), 1-based, 0 when absent
LastIndexOf(s, sub) ==
  LET hits == {i \in 1..Len(s) : i + Len(sub) - 1 <= Len(s)
                                  /\ SubSeq(s, i, i + Len(sub) - 1) = sub}
  IN  IF hits = {} THEN 0 ELSE CHOOSE i \in hits : \A j \in hits : j <= i

RECURSIVE toLowerCase(_)
toLowerCase(s) ==
  LET
    UpperChars == "ABCDEFGHIJKLMNOPQRSTUVWXYZ"

    LowerChars == "abcdefghijklmnopqrstuvwxyz"

    LowerChar(c) ==
      IF \E i \in 1..Len(UpperChars) : SubSeq(UpperChars, i, i) = c
        THEN LET i == CHOOSE j \in 1..Len(UpperChars) : SubSeq(UpperChars, j, j) = c
             IN  SubSeq(LowerChars, i, i)
        ELSE c
  IN
      IF Len(s) = 0 THEN s
      ELSE LowerChar(SubSeq(s, 1, 1)) \o toLowerCase(SubSeq(s, 2, Len(s)))

\* Sequences of length 0..n over S
SeqsUpTo(S, n) == UNION {[1..k -> S] : k \in 0..n}

-----------------------------------------------------------------------------
(* Registry responses (src/lib/provenance.ts, httpJson and the bodies read) *)

AttestationLists ==
  LET
    \* workflow.repository / workflow.ref strings carried by an attestation payload
    RepoStrings == {"o/r1", "o/r1.git", "o/r2"}

    RefStrings == {"refs/heads/main", "refs/heads/dev", "refs/tags/v1"}

    Attestations == [repository : RepoStrings \cup {None}, ref : RefStrings \cup {None},
                     uri : {None}, deps : {<<>>}]
  IN
                        SeqsUpTo(Attestations, MaxAtts)

\* the answers of an attestation URL whose attestation list is one of lists:
\* a parsed body, a 404 rejection, or any other rejection (network error,
\* missing status, other status, bad JSON)
AttestResponses(lists) ==
  {[status |-> s, hasCount |-> FALSE, count |-> 0, isArray |-> FALSE, attestations |-> <<>>] :
      s \in {"404", "err"}}
  \cup {r \in [status : {"ok"}, hasCount : BOOLEAN, count : {0, 1},
               isArray : BOOLEAN, attestations : lists] :
          /\ (~r.hasCount => r.count = 0)
          /\ (~r.isArray => r.attestations = <<>>)}

\* httpJson on an attestation URL
httpJsonAttest == AttestResponses(AttestationLists)

NoUser == [present |-> FALSE, trustedPublisher |-> FALSE, name |-> None, email |-> None]

\* the answers of the package metadata URL, reduced to the record of the
\* version looked up: meta.versions[version] and the fields read from it
MetaResponses(lists, users) ==
  {[status |-> s, hasVersion |-> FALSE, provenance |-> FALSE, distProvenance |-> FALSE,
    distKind |-> "absent", distAttestations |-> <<>>, npmUser |-> NoUser] :
      s \in {"ok", "404", "err"}}
  \cup {r \in [status : {"ok"}, hasVersion : {TRUE}, provenance : BOOLEAN,
               distProvenance : BOOLEAN,
               distKind : {"absent", "string", "object", "array"},
               distAttestations : lists, npmUser : users] :
          /\ (r.distKind \in {"absent", "string"} => r.distAttestations = <<>>)
          /\ (r.distKind = "object" => Len(r.distAttestations) = 1)}

\* httpJson on the package metadata URL
httpJsonMeta ==
  MetaResponses(AttestationLists,
                {NoUser} \cup [present : {TRUE}, trustedPublisher : BOOLEAN,
                               name : {"GitHub Actions", "someone"},
                               email : {"npm-oidc-no-reply@github.com", "me@example.com"}])

-----------------------------------------------------------------------------
(* Pure helpers of src/lib/provenance.ts *)

Truthy(s) == s # None /\ s # ""

Key(name, version) == name \o "@" \o version

RECURSIVE IndexOf(_, _, _)
IndexOf(s, sub, from) ==
  IF from + Len(sub) - 1 > Len(s) THEN 0
  ELSE IF SubSeq(s, from, from + Len(sub) - 1) = sub THEN from
  ELSE IndexOf(s, sub, from + 1)

\* s.replace(/\.git$/, '')
StripGitSuffix(s) == IF EndsWith(s, ".git") THEN SubSeq(s, 1, Len(s) - 4) ELSE s

\* s.split('/').filter(Boolean)
RECURSIVE PathParts(_)
PathParts(s) ==
  IF Len(s) = 0 THEN <<>>
  ELSE LET k == IndexOf(s, "/", 1) IN
       IF k = 0 THEN <<s>>
       ELSE IF k = 1 THEN PathParts(SubSeq(s, 2, Len(s)))
       ELSE <<SubSeq(s, 1, k - 1)>> \o PathParts(SubSeq(s, k + 1, Len(s)))

\* new URL(s) for texts of the form scheme://[userinfo@]host[:port][/path]
\* without query or fragment; a text without "://", with white space, or
\* with an empty or ill-formed host makes the constructor throw (ok = FALSE)
ParseUrl(s) ==
  LET bad == [ok |-> FALSE, hostname |-> "", pathname |-> ""]
      letters == "abcdefghijklmnopqrstuvwxyzABCDEFGHIJKLMNOPQRSTUVWXYZ"
      isLetter(c) == \E i \in 1..Len(letters) : SubSeq(letters, i, i) = c
      hostChars == letters \o "0123456789.-"
      \* the last "@" of the authority, 0 when it has none
      UserinfoEnd(authority) == LastIndexOf(authority, "@")
      \* the host without its port
      HostOf(hostport, c) == IF c = 0 THEN hostport ELSE SubSeq(hostport, 1, c - 1)
      Url(host, path) ==
        IF \/ Len(host) = 0
           \/ \E i \in 1..Len(host) :
                \A h \in 1..Len(hostChars) :
                  SubSeq(hostChars, h, h) # SubSeq(host, i, i)
          THEN bad
          ELSE [ok |-> TRUE, hostname |-> toLowerCase(host), pathname |-> path]
      HostPort(hostport, path) == Url(HostOf(hostport, IndexOf(hostport, ":", 1)), path)
      Authority(authority, path) ==
        HostPort(SubSeq(authority, UserinfoEnd(authority) + 1, Len(authority)), path)
      Rest(rest, j) ==
        Authority(IF j = 0 THEN rest ELSE SubSeq(rest, 1, j - 1),
                  IF j = 0 THEN "/" ELSE SubSeq(rest, j, Len(rest)))
      AfterScheme(rest) == Rest(rest, IndexOf(rest, "/", 1))
      Scheme(k) ==
        IF k <= 1 \/ ~isLetter(SubSeq(s, 1, 1)) THEN bad
        ELSE AfterScheme(SubSeq(s, k + 3, Len(s)))
  IN  Scheme(IndexOf(s, "://", 1))

normalizeRepository(repo) ==
  LET
    CountChar(s, c) == Cardinality({i \in 1..Len(s) : SubSeq(s, i, i) = c})

    HasWhitespace(s) == \E i \in 1..Len(s) : SubSeq(s, i, i) \in {" ", "\t", "\n", "\r"}

    \* /^[^\s/]+\/[^^\s/]+$/
    IsOwnerRepo(r) ==
      /\ CountChar(r, "/") = 1
      /\ ~HasWhitespace(r)
      /\ LET k == IndexOf(r, "/", 1) IN
           /\ k > 1
           /\ k < Len(r)
           /\ CountChar(SubSeq(r, k + 1, Len(r)), "^") = 0
  IN
      IF IsOwnerRepo(repo) THEN StripGitSuffix(repo)
      ELSE LET OwnerRepo(parts) ==
                 IF Len(parts) >= 2 THEN parts[1] \o "/" \o parts[2] ELSE repo
               FromUrl(url) ==
                 IF /\ url.ok
                    /\ (url.hostname = "github.com" \/ EndsWith(url.hostname, ".github.com"))
                 THEN OwnerRepo(PathParts(StripGitSuffix(url.pathname)))
                 ELSE repo
           IN  FromUrl(ParseUrl(IF StartsWith(repo, "git+")
                                  THEN SubSeq(repo, 5, Len(repo)) ELSE repo))

\* the outcome of parseRepoRefFromUri when it returns undefined
NoRepoRef == [ok |-> FALSE, repository |-> None, ref |-> None]

\* lines 243-266; ok = FALSE stands for undefined
parseRepoRefFromUri(uri) ==
  LET RepoRef(parts, ref) ==
        IF Len(parts) < 2 THEN NoRepoRef
        ELSE [ok |-> TRUE, repository |-> parts[1] \o "/" \o parts[2], ref |-> ref]
      FromUrl_(url, ref) ==
        IF ~url.ok THEN NoRepoRef
        ELSE IF url.hostname \notin {"github.com", "www.github.com"} THEN NoRepoRef
        ELSE RepoRef(PathParts(StripGitSuffix(url.pathname)), ref)
      Split(cleaned, at, cut) ==
        FromUrl_(ParseUrl(IF cut THEN SubSeq(cleaned, 1, at - 1) ELSE cleaned),
                 IF cut THEN SubSeq(cleaned, at + 1, Len(cleaned)) ELSE None)
      At(cleaned, at) == Split(cleaned, at, at > IndexOf(cleaned, "://", 1) + 2)
      Cleaned(cleaned) == At(cleaned, LastIndexOf(cleaned, "@"))
  IN  Cleaned(IF StartsWith(uri, "git+") THEN SubSeq(uri, 5, Len(uri)) ELSE uri)

normalizeRefToBranch(ref) ==
  IF ~Truthy(ref) THEN None
  ELSE IF StartsWith(ref, "refs/heads/") THEN SubSeq(ref, Len("refs/heads/") + 1, Len(ref))
  ELSE None

\* An attestation payload, reduced to the fields extractRepoAndRef reads:
\* repository, ref = workflow.repository, workflow.ref; uri =
\* predicate.invocation.configSource.uri; deps = the uri of each entry of
\* resolvedDependencies. None stands for a field that is absent or not a
\* string.
Attestation(repository, ref, uri, deps) ==
  [repository |-> repository, ref |-> ref, uri |-> uri, deps |-> deps]

\* lines 215-222: the repository of the first dependency whose uri parses
RECURSIVE FirstDependencyRepository(_, _)
FirstDependencyRepository(deps, i) ==
  IF i > Len(deps) THEN None
  ELSE LET Parsed(p) ==
             IF Truthy(deps[i]) /\ p.ok THEN p.repository
             ELSE FirstDependencyRepository(deps, i + 1)
       IN  Parsed(parseRepoRefFromUri(deps[i]))

\* mutant: workflow.repository is taken through parseRepoRefFromUri
extractRepoAndRefStrict(att) ==
  LET Combine(workflowRepository, parsed, dependency) ==
        LET repository == IF parsed.ok /\ ~Truthy(workflowRepository)
                            THEN parsed.repository ELSE workflowRepository
        IN  [repository |-> IF ~Truthy(repository) /\ dependency # None
                              THEN dependency ELSE repository,
             ref        |-> IF parsed.ok /\ ~Truthy(att.ref) THEN parsed.ref ELSE att.ref]
      Workflow(workflowRepository) ==
        Combine(workflowRepository,
                IF (~Truthy(workflowRepository) \/ ~Truthy(att.ref)) /\ Truthy(att.uri)
                  THEN parseRepoRefFromUri(att.uri) ELSE NoRepoRef,
                FirstDependencyRepository(att.deps, 1))
      Strict(p) == Workflow(IF att.repository # None /\ p.ok THEN p.repository ELSE None)
  IN  Strict(parseRepoRefFromUri(att.repository))

\* lines 196-225
extractRepoAndRef(att) ==
  LET Combine(workflowRepository, parsed, dependency) ==
        LET repository == IF parsed.ok /\ ~Truthy(workflowRepository)
                            THEN parsed.repository ELSE workflowRepository
        IN  [repository |-> IF ~Truthy(repository) /\ dependency # None
                              THEN dependency ELSE repository,
             ref        |-> IF parsed.ok /\ ~Truthy(att.ref) THEN parsed.ref ELSE att.ref]
      Workflow(workflowRepository) ==
        Combine(workflowRepository,
                IF (~Truthy(workflowRepository) \/ ~Truthy(att.ref)) /\ Truthy(att.uri)
                  THEN parseRepoRefFromUri(att.uri) ELSE NoRepoRef,
                FirstDependencyRepository(att.deps, 1))
  IN  Workflow(IF att.repository # None THEN normalizeRepository(att.repository) ELSE None)

EmptyDetails == [has |-> FALSE, repository |-> None, ref |-> None, branch |-> None]

\* mutant: a ref that gives no branch leaves the branch of an earlier ref
RECURSIVE ScanAttestationsKeepsBranch(_, _, _)
ScanAttestationsKeepsBranch(details, atts, i) ==
  IF i > Len(atts) THEN details
  ELSE LET Extracted(x) ==
             IF Truthy(x.repository) \/ Truthy(x.ref)
             THEN LET repo == IF Truthy(x.repository) THEN x.repository ELSE details.repository
                      ref == IF Truthy(x.ref) THEN x.ref ELSE details.ref
                      branch == IF Truthy(ref) /\ normalizeRefToBranch(ref) # None
                             THEN normalizeRefToBranch(ref) ELSE details.branch
                      d == [details EXCEPT !.repository = repo, !.ref = ref, !.branch = branch]
                  IN  IF Truthy(repo) /\ Truthy(branch) THEN d
                      ELSE ScanAttestationsKeepsBranch(d, atts, i + 1)
             ELSE ScanAttestationsKeepsBranch(details, atts, i + 1)
       IN  Extracted(extractRepoAndRef(atts[i]))

\* the loop over the attestations of one response, from index i on
RECURSIVE ScanAttestations(_, _, _)
ScanAttestations(details, atts, i) ==
  IF i > Len(atts) THEN details
  ELSE LET Extracted(x) ==
             IF Truthy(x.repository) \/ Truthy(x.ref)
             THEN LET repo == IF Truthy(x.repository) THEN x.repository ELSE details.repository
                      ref == IF Truthy(x.ref) THEN x.ref ELSE details.ref
                      branch == IF Truthy(ref) THEN normalizeRefToBranch(ref) ELSE details.branch
                      d == [details EXCEPT !.repository = repo, !.ref = ref, !.branch = branch]
                  IN  IF Truthy(repo) /\ Truthy(branch) THEN d
                      ELSE ScanAttestations(d, atts, i + 1)
             ELSE ScanAttestations(details, atts, i + 1)
       IN  Extracted(extractRepoAndRef(atts[i]))

AttestationCount(res) ==
  IF res.hasCount THEN res.count
  ELSE IF res.isArray THEN Len(res.attestations) ELSE 0

\* mutant: dist.attestations is not taken as a sign of provenance
MetaHasProvenanceNoAttestations(meta) ==
  /\ meta.hasVersion
  /\ \/ meta.provenance
     \/ meta.distProvenance

MetaHasProvenance(meta) ==
  /\ meta.hasVersion
  /\ \/ meta.provenance
     \/ meta.distProvenance
     \/ meta.distKind \in {"object", "array"}

\* mutant: the publisher's email is not compared
MetaTrustedPublisherNameOnly(meta) ==
  \/ meta.hasVersion /\ meta.npmUser.present /\ meta.npmUser.trustedPublisher
  \/ /\ meta.hasVersion /\ meta.npmUser.present
     /\ meta.npmUser.name = "GitHub Actions"

MetaTrustedPublisher(meta) ==
  \/ meta.hasVersion /\ meta.npmUser.present /\ meta.npmUser.trustedPublisher
  \/ /\ meta.hasVersion /\ meta.npmUser.present
     /\ meta.npmUser.name = "GitHub Actions"
     /\ meta.npmUser.email = "npm-oidc-no-reply@github.com"

\* ver.dist.attestations as the list getProvenanceDetails scans
MetaAttestationList(meta) ==
  IF ~meta.hasVersion \/ meta.distKind = "absent" THEN <<>>
  ELSE IF meta.distKind = "array" THEN meta.distAttestations
  ELSE IF meta.distKind = "object" THEN meta.distAttestations
  ELSE <<Attestation(None, None, None, <<>>)>>

-----------------------------------------------------------------------------
(* What each lookup concludes from one response *)

\* mutant: a 404 is treated like any other error
hasProvenanceAttestNotFoundContinues(res) ==
  [status  |-> res.status,
   count   |-> IF res.status = "ok" THEN AttestationCount(res) ELSE 0,
   verdict |-> IF res.status = "ok"
                 THEN IF AttestationCount(res) > 0 THEN "true" ELSE "false"
               ELSE "next"]

\* mutant: a positive count does not end the queries
hasProvenanceAttestPositiveContinues(res) ==
  [status  |-> res.status,
   count   |-> IF res.status = "ok" THEN AttestationCount(res) ELSE 0,
   verdict |-> IF res.status = "ok"
                 THEN IF AttestationCount(res) > 0 THEN "next" ELSE "false"
               ELSE IF res.status = "404" THEN "false"
               ELSE "next"]

\* hasProvenance, one attestation endpoint: "true" = positive count,
\* "false" = zero count or 404, "next" = any other error
hasProvenanceAttest(res) ==
  [status  |-> res.status,
   count   |-> IF res.status = "ok" THEN AttestationCount(res) ELSE 0,
   verdict |-> IF res.status = "ok"
                 THEN IF AttestationCount(res) > 0 THEN "true" ELSE "false"
               ELSE IF res.status = "404" THEN "false"
               ELSE "next"]

\* const ver = meta && meta.versions && meta.versions[version], when absent
NoVer == [hasVersion |-> FALSE, provenance |-> FALSE, distProvenance |-> FALSE,
          distKind |-> "absent", npmUser |-> NoUser]

\* hasProvenance, metadata fallback
hasProvenanceMeta(meta) ==
  LET
    \* the fields of ver that hasProvenance reads
    ProvenanceVer ==
      [NoVer EXCEPT !.hasVersion = meta.hasVersion, !.provenance = meta.provenance,
                    !.distProvenance = meta.distProvenance, !.distKind = meta.distKind]
  IN
      [status |-> meta.status,
       has    |-> IF meta.status = "ok" THEN MetaHasProvenance(meta) ELSE FALSE,
       ver    |-> ProvenanceVer]

\* mutant: a 404 is treated like any other error
getProvenanceDetailsAttestNotFoundContinues(res) ==
  IF res.status = "ok"
    THEN IF Len(res.attestations) = 0
           THEN [status |-> "ok", verdict |-> "next", details |-> EmptyDetails]
           ELSE [status |-> "ok", verdict |-> "found",
                 details |-> ScanAttestations([EmptyDetails EXCEPT !.has = TRUE],
                                              res.attestations, 1)]
  ELSE [status |-> res.status, verdict |-> "next", details |-> EmptyDetails]

\* getProvenanceDetails, one attestation endpoint: "found" = non-empty list
\* scanned, "notfound" = 404, "next" = empty list or any other error
getProvenanceDetailsAttest(res) ==
  IF res.status = "ok"
    THEN IF Len(res.attestations) = 0
           THEN [status |-> "ok", verdict |-> "next", details |-> EmptyDetails]
           ELSE [status |-> "ok", verdict |-> "found",
                 details |-> ScanAttestations([EmptyDetails EXCEPT !.has = TRUE],
                                              res.attestations, 1)]
  ELSE IF res.status = "404"
    THEN [status |-> "404", verdict |-> "notfound", details |-> EmptyDetails]
  ELSE [status |-> res.status, verdict |-> "next", details |-> EmptyDetails]

\* getProvenanceDetails, metadata fallback
getProvenanceDetailsMeta(meta) ==
  [status  |-> meta.status,
   details |-> IF meta.status = "ok" /\ Len(MetaAttestationList(meta)) > 0
                 THEN ScanAttestations([EmptyDetails EXCEPT !.has = TRUE],
                                       MetaAttestationList(meta), 1)
                 ELSE EmptyDetails]

\* hasTrustedPublisher, its one metadata request
hasTrustedPublisherMeta(meta) ==
  LET
    \* the fields of ver that hasTrustedPublisher reads
    TrustedPublisherVer ==
      [NoVer EXCEPT !.hasVersion = meta.hasVersion, !.npmUser = meta.npmUser]
  IN
      [status |-> meta.status,
       tp     |-> IF meta.status = "ok" THEN MetaTrustedPublisher(meta) ELSE FALSE,
       ver    |-> TrustedPublisherVer]

\* what the lookups can learn from a registry that answers from these responses
Outcomes(attest, meta) ==
  [provAttest       |-> {hasProvenanceAttest(r) : r \in attest},
   provMeta         |-> {hasProvenanceMeta(m) : m \in meta},
   detailsAttest    |-> {getProvenanceDetailsAttest(r) : r \in attest},
   detailsMeta      |-> {getProvenanceDetailsMeta(m) : m \in meta},
   trustedPublisher |-> {hasTrustedPublisherMeta(m) : m \in meta}]

\* The registry of a run: "any" answers with every response of httpJson;
\* "plain" answers an attestations request with a rejection or with one
\* attestation and a metadata request with the version, published by a trusted publisher
\* or not.
RegistryOutcomes ==
  LET one == {<<Attestation("o/r1", "refs/heads/main", None, <<>>)>>,
              <<Attestation("o/r2", "refs/tags/v1", None, <<>>)>>}
      plainAttest == {r \in AttestResponses(one) :
                        r.status # "ok" \/ (r.hasCount /\ r.count = 1 /\ r.attestations # <<>>)}
      publishers == {NoUser, [present |-> TRUE, trustedPublisher |-> TRUE,
                              name |-> "someone", email |-> "me@example.com"]}
      plainMeta == {m \in MetaResponses({<<>>}, publishers) :
                      m.hasVersion /\ ~m.provenance /\ ~m.distProvenance /\ m.distKind = "absent"}
  IN  [any   |-> Outcomes(httpJsonAttest, httpJsonMeta),
       plain |-> Outcomes(plainAttest, plainMeta)]

-----------------------------------------------------------------------------
(* Lookup calls: a call is issued (cache check, first request) by its       *)
(* caller and advances by one step per response                            *)

IdleCall == [st |-> "idle", name |-> None, version |-> None, ret |-> FALSE,
             details |-> EmptyDetails, log |-> <<>>, ver |-> NoVer]

\* a registry request, by the lookup and the package version it is made for
Request(fn, name, version) == [fn |-> fn, name |-> name, version |-> version]

Put(cache, key, value) == (key :> value) @@ cache

\* mutant: the cache is not consulted
hasProvenanceCallUncached(name, version) ==
  [IdleCall EXCEPT !.st = "ep1", !.name = name, !.version = version]

\* no helper function is applied on its own by run or by the lookups
NoApp == [fn |-> None, args |-> <<>>, out |-> None, done |-> TRUE]

\* lines 7-16: cache hit returns at once, otherwise the first endpoint is asked
hasProvenanceCall(name, version) ==
  IF Key(name, version) \in DOMAIN provenanceCache
    THEN [IdleCall EXCEPT !.st = "done", !.name = name, !.version = version,
                          !.ret = provenanceCache[Key(name, version)]]
    ELSE [IdleCall EXCEPT !.st = "ep1", !.name = name, !.version = version]

getProvenanceDetailsCall(name, version) ==
  IF Key(name, version) \in DOMAIN provenanceDetailsCache
    THEN [IdleCall EXCEPT !.st = "done", !.name = name, !.version = version,
                          !.details = provenanceDetailsCache[Key(name, version)]]
    ELSE [IdleCall EXCEPT !.st = "ep1", !.name = name, !.version = version]

\* mutant: the trusted-publisher cache is not consulted
hasTrustedPublisherCallUncached(name, version) ==
  [IdleCall EXCEPT !.st = "meta", !.name = name, !.version = version]

hasTrustedPublisherCall(name, version) ==
  IF Key(name, version) \in DOMAIN trustedPublisherCache
    THEN [IdleCall EXCEPT !.st = "done", !.name = name, !.version = version,
                          !.ret = trustedPublisherCache[Key(name, version)]]
    ELSE [IdleCall EXCEPT !.st = "meta", !.name = name, !.version = version]

\* the request a freshly issued call has in flight, if any
IssuedBy(fn, call) ==
  IF call.st \in {"ep1", "ep2", "meta"}
    THEN {Request(fn, call.name, call.version)}
    ELSE {}

\* the call's own record of a response: endpoint, status, attestation count
\* read; kept for the lookup client, which inspects it (run never reads it)
Logged(call, status, count) ==
  IF pc = "client"
    THEN Append(call.log, [ep |-> call.st, status |-> status, count |-> count])
    ELSE <<>>

\* the call's own record of the version record its metadata response carried
Read(ver) == IF pc = "client" THEN ver ELSE NoVer

\* mutant: a zero count moves on to the next endpoint
HasProvenanceAttestResponseZeroContinues ==
  /\ calls["prov"].st \in {"ep1", "ep2"}
  /\ \E o \in RegistryOutcomes[env.registry].provAttest :
       LET c   == calls["prov"]
           key == Key(c.name, c.version)
           nxt == IF c.st = "ep1" THEN "ep2" ELSE "meta"
       IN  IF o.verdict = "next" \/ (o.status = "ok" /\ o.verdict = "false")
             THEN /\ calls' = [calls EXCEPT !["prov"] =
                                 [c EXCEPT !.st = nxt, !.log = Logged(c, o.status, o.count)]]
                  /\ requests' = requests \cup {Request("prov", c.name, c.version)}
                  /\ UNCHANGED provenanceCache
             ELSE /\ provenanceCache' = Put(provenanceCache, key, o.verdict = "true")
                  /\ calls' = [calls EXCEPT !["prov"] =
                                 [c EXCEPT !.st = "done", !.ret = (o.verdict = "true"),
                                           !.log = Logged(c, o.status, o.count)]]
                  /\ UNCHANGED requests
  /\ UNCHANGED << app, inputs, env, previousDeps, currentDeps, changed, pc, ci, vi, pi,
                  hasProvNew, newDetails, hasTPNew, events, warnings,
                  provenanceDetailsCache, trustedPublisherCache,
                  history, outputs, annotations, exitCode >>

\* mutant: after a rejection by the second endpoint the first is asked again
HasProvenanceAttestResponseRetries ==
  /\ calls["prov"].st \in {"ep1", "ep2"}
  /\ \E o \in RegistryOutcomes[env.registry].provAttest :
       LET c   == calls["prov"]
           key == Key(c.name, c.version)
           nxt == IF c.st = "ep1" THEN "ep2" ELSE "ep1"
       IN  IF o.verdict = "next"
             THEN /\ calls' = [calls EXCEPT !["prov"] =
                                 [c EXCEPT !.st = nxt, !.log = Logged(c, o.status, o.count)]]
                  /\ requests' = requests \cup {Request("prov", c.name, c.version)}
                  /\ UNCHANGED provenanceCache
             ELSE /\ provenanceCache' = Put(provenanceCache, key, o.verdict = "true")
                  /\ calls' = [calls EXCEPT !["prov"] =
                                 [c EXCEPT !.st = "done", !.ret = (o.verdict = "true"),
                                           !.log = Logged(c, o.status, o.count)]]
                  /\ UNCHANGED requests
  /\ UNCHANGED << app, inputs, env, previousDeps, currentDeps, changed, pc, ci, vi, pi,
                  hasProvNew, newDetails, hasTPNew, events, warnings,
                  provenanceDetailsCache, trustedPublisherCache,
                  history, outputs, annotations, exitCode >>

\* hasProvenance: the response of an attestation endpoint arrives
HasProvenanceAttestResponse ==
  /\ calls["prov"].st \in {"ep1", "ep2"}
  /\ \E o \in RegistryOutcomes[env.registry].provAttest :
       LET c   == calls["prov"]
           key == Key(c.name, c.version)
           nxt == IF c.st = "ep1" THEN "ep2" ELSE "meta"
       IN  IF o.verdict = "next"
             THEN /\ calls' = [calls EXCEPT !["prov"] =
                                 [c EXCEPT !.st = nxt, !.log = Logged(c, o.status, o.count)]]
                  /\ requests' = requests \cup {Request("prov", c.name, c.version)}
                  /\ UNCHANGED provenanceCache
             ELSE /\ provenanceCache' = Put(provenanceCache, key, o.verdict = "true")
                  /\ calls' = [calls EXCEPT !["prov"] =
                                 [c EXCEPT !.st = "done", !.ret = (o.verdict = "true"),
                                           !.log = Logged(c, o.status, o.count)]]
                  /\ UNCHANGED requests
  /\ UNCHANGED << app, inputs, env, previousDeps, currentDeps, changed, pc, ci, vi, pi,
                  hasProvNew, newDetails, hasTPNew, events, warnings,
                  provenanceDetailsCache, trustedPublisherCache,
                  history, outputs, annotations, exitCode >>

\* hasProvenance: the response of the metadata endpoint arrives
HasProvenanceMetaResponse ==
  /\ calls["prov"].st = "meta"
  /\ \E o \in RegistryOutcomes[env.registry].provMeta :
       LET c == calls["prov"] IN
       /\ provenanceCache' = Put(provenanceCache, Key(c.name, c.version), o.has)
       /\ calls' = [calls EXCEPT !["prov"] =
                      [c EXCEPT !.st = "done", !.ret = o.has, !.log = Logged(c, o.status, 0),
                                !.ver = Read(o.ver)]]
  /\ UNCHANGED << app, inputs, env, previousDeps, currentDeps, changed, pc, ci, vi, pi,
                  hasProvNew, newDetails, hasTPNew, events, warnings,
                  provenanceDetailsCache, trustedPublisherCache, requests,
                  history, outputs, annotations, exitCode >>

\* getProvenanceDetails: the response of an attestation endpoint arrives
DetailsAttestResponse ==
  /\ calls["det"].st \in {"ep1", "ep2"}
  /\ \E o \in RegistryOutcomes[env.registry].detailsAttest :
       LET c   == calls["det"]
           key == Key(c.name, c.version)
           nxt == IF c.st = "ep1" THEN "ep2" ELSE "meta"
       IN  IF o.verdict = "next"
             THEN /\ calls' = [calls EXCEPT !["det"] =
                                 [c EXCEPT !.st = nxt, !.log = Logged(c, o.status, 0)]]
                  /\ requests' = requests \cup {Request("det", c.name, c.version)}
                  /\ UNCHANGED provenanceDetailsCache
             ELSE /\ provenanceDetailsCache' = Put(provenanceDetailsCache, key, o.details)
                  /\ calls' = [calls EXCEPT !["det"] =
                                 [c EXCEPT !.st = "done", !.details = o.details,
                                           !.log = Logged(c, o.status, 0)]]
                  /\ UNCHANGED requests
  /\ UNCHANGED << app, inputs, env, previousDeps, currentDeps, changed, pc, ci, vi, pi,
                  hasProvNew, newDetails, hasTPNew, events, warnings,
                  provenanceCache, trustedPublisherCache,
                  history, outputs, annotations, exitCode >>

\* getProvenanceDetails: the response of the metadata endpoint arrives
DetailsMetaResponse ==
  /\ calls["det"].st = "meta"
  /\ \E o \in RegistryOutcomes[env.registry].detailsMeta :
       LET c == calls["det"] IN
       /\ provenanceDetailsCache' =
            Put(provenanceDetailsCache, Key(c.name, c.version), o.details)
       /\ calls' = [calls EXCEPT !["det"] =
                      [c EXCEPT !.st = "done", !.details = o.details,
                                !.log = Logged(c, o.status, 0)]]
  /\ UNCHANGED << app, inputs, env, previousDeps, currentDeps, changed, pc, ci, vi, pi,
                  hasProvNew, newDetails, hasTPNew, events, warnings,
                  provenanceCache, trustedPublisherCache, requests,
                  history, outputs, annotations, exitCode >>

\* mutant: a failed metadata request is not cached
TrustedPublisherResponseNoCacheOnError ==
  /\ calls["tp"].st = "meta"
  /\ \E o \in RegistryOutcomes[env.registry].trustedPublisher :
       LET c == calls["tp"] IN
       /\ trustedPublisherCache' =
            IF o.status = "ok"
              THEN Put(trustedPublisherCache, Key(c.name, c.version), o.tp)
              ELSE trustedPublisherCache
       /\ calls' = [calls EXCEPT !["tp"] =
                      [c EXCEPT !.st = "done", !.ret = o.tp, !.log = Logged(c, o.status, 0),
                                !.ver = Read(o.ver)]]
  /\ UNCHANGED << app, inputs, env, previousDeps, currentDeps, changed, pc, ci, vi, pi,
                  hasProvNew, newDetails, hasTPNew, events, warnings,
                  provenanceCache, provenanceDetailsCache, requests,
                  history, outputs, annotations, exitCode >>

\* hasTrustedPublisher: the response of the metadata endpoint arrives
TrustedPublisherResponse ==
  /\ calls["tp"].st = "meta"
  /\ \E o \in RegistryOutcomes[env.registry].trustedPublisher :
       LET c == calls["tp"] IN
       /\ trustedPublisherCache' =
            Put(trustedPublisherCache, Key(c.name, c.version), o.tp)
       /\ calls' = [calls EXCEPT !["tp"] =
                      [c EXCEPT !.st = "done", !.ret = o.tp, !.log = Logged(c, o.status, 0),
                                !.ver = Read(o.ver)]]
  /\ UNCHANGED << app, inputs, env, previousDeps, currentDeps, changed, pc, ci, vi, pi,
                  hasProvNew, newDetails, hasTPNew, events, warnings,
                  provenanceCache, provenanceDetailsCache, requests,
                  history, outputs, annotations, exitCode >>

Responses ==
  \/ HasProvenanceAttestResponse
  \/ HasProvenanceMetaResponse
  \/ DetailsAttestResponse
  \/ DetailsMetaResponse
  \/ TrustedPublisherResponse

\* the value a settled call hands to its caller
Returned(fn, call) == IF fn = "det" THEN call.details ELSE call.ret

\* history after the caller has received the value of the settled call fn
Remember(fn) ==
  LET c == calls[fn]
      key == Key(c.name, c.version)
  IN  IF key \in DOMAIN history[fn] THEN history
      ELSE [history EXCEPT ![fn] = Put(history[fn], key, Returned(fn, c))]

-----------------------------------------------------------------------------
(* A caller that issues lookups one after another on shared caches *)

InitLookup ==
  /\ inputs = [failOnDowngrade |-> None, failOnProvChange |-> None]
  /\ env = [lockfile |-> FALSE, head |-> FALSE, base |-> FALSE,
            headDeps |-> <<>>, baseDeps |-> <<>>, registry |-> "any"]
  /\ previousDeps = <<>>
  /\ currentDeps = <<>>
  /\ changed = <<>>
  /\ pc = "client"
  /\ ci = 1 /\ vi = 1 /\ pi = 1
  /\ hasProvNew = FALSE /\ newDetails = EmptyDetails /\ hasTPNew = FALSE
  /\ events = <<>> /\ warnings = <<>>
  /\ provenanceCache = << >>
  /\ provenanceDetailsCache = << >>
  /\ trustedPublisherCache = << >>
  /\ calls = [s \in Slots |-> IdleCall]
  /\ requests = {}
  /\ history = [s \in Slots |-> << >>]
  /\ outputs = <<>> /\ annotations = <<>> /\ exitCode = 0
  /\ app = NoApp

\* The three functions share no state, so each behaviour of this caller
\* exercises one of them: its first call chooses which.
ClientCall ==
  LET
    LookupNames == {"a"}

    LookupVersions == {"1", "2"}

    IssueCall(fn, name, version) ==
      IF fn = "prov" THEN hasProvenanceCall(name, version)
      ELSE IF fn = "det" THEN getProvenanceDetailsCall(name, version)
      ELSE hasTrustedPublisherCall(name, version)
  IN
      /\ pc = "client"
      /\ \A s \in Slots : calls[s].st = "idle"
      /\ \E fn \in Slots, name \in LookupNames, version \in LookupVersions :
           /\ \A g \in Slots \ {fn} : history[g] = << >>
           /\ calls' = [calls EXCEPT ![fn] = IssueCall(fn, name, version)]
           /\ requests' = requests \cup IssuedBy(fn, IssueCall(fn, name, version))
      /\ UNCHANGED << app, inputs, env, previousDeps, currentDeps, changed, pc, ci, vi, pi,
                      hasProvNew, newDetails, hasTPNew, events, warnings,
                      provenanceCache, provenanceDetailsCache, trustedPublisherCache,
                      history, outputs, annotations, exitCode >>

ClientReturn ==
  /\ pc = "client"
  /\ \E fn \in Slots :
       /\ calls[fn].st = "done"
       /\ history' = Remember(fn)
       /\ calls' = [calls EXCEPT ![fn] = IdleCall]
  /\ UNCHANGED << app, inputs, env, previousDeps, currentDeps, changed, pc, ci, vi, pi,
                  hasProvNew, newDetails, hasTPNew, events, warnings,
                  provenanceCache, provenanceDetailsCache, trustedPublisherCache,
                  requests, outputs, annotations, exitCode >>

NextLookup == ClientCall \/ ClientReturn \/ Responses

SpecLookup == InitLookup /\ [][NextLookup]_vars

-----------------------------------------------------------------------------
(* Lockfile diff (VersionsSet = insertion-ordered map name -> ordered set) *)

Elems(q) == {q[i] : i \in 1..Len(q)}

Keys(map) == [i \in 1..Len(map) |-> map[i].name]

\* map.get(name) || new Set()
Get(map, name) ==
  IF \E i \in 1..Len(map) : map[i].name = name
    THEN map[CHOOSE i \in 1..Len(map) : map[i].name = name].versions
    ELSE <<>>

\* mutant: the sets are compared in insertion order
setsEqualOrdered(a, b) == a = b

setsEqual(a, b) ==
  IF Len(a) # Len(b) THEN FALSE
  ELSE \A i \in 1..Len(a) : a[i] \in Elems(b)

\* new Set([...prev.keys(), ...curr.keys()]) in insertion order
RECURSIVE Dedup(_)
Dedup(q) ==
  IF Len(q) = 0 THEN <<>>
  ELSE LET front == Dedup(SubSeq(q, 1, Len(q) - 1)) IN
       IF q[Len(q)] \in Elems(front) THEN front ELSE Append(front, q[Len(q)])

RECURSIVE DiffNames(_, _, _)
DiffNames(names, prev, curr) ==
  IF Len(names) = 0 THEN <<>>
  ELSE LET a == Get(prev, Head(names))
           b == Get(curr, Head(names))
           rest == DiffNames(Tail(names), prev, curr)
       IN  IF ~setsEqual(a, b)
             THEN <<[name |-> Head(names), previous |-> a, current |-> b]>> \o rest
             ELSE rest

diffDependencySets(prev, curr) == DiffNames(Dedup(Keys(prev) \o Keys(curr)), prev, curr)

\* ordered sets of at most n elements of S
OrderedSets(S, n) ==
  {q \in SeqsUpTo(S, n) : \A i, j \in 1..Len(q) : i # j => q[i] # q[j]}

-----------------------------------------------------------------------------
(* Helper functions applied on their own to arguments drawn from a set *)

InitApp(fn, argsSet) ==
  /\ app \in {[fn |-> fn, args |-> a, out |-> None, done |-> FALSE] : a \in argsSet}
  /\ inputs = [failOnDowngrade |-> None, failOnProvChange |-> None]
  /\ env = [lockfile |-> FALSE, head |-> FALSE, base |-> FALSE,
            headDeps |-> <<>>, baseDeps |-> <<>>, registry |-> "any"]
  /\ previousDeps = <<>>
  /\ currentDeps = <<>>
  /\ changed = <<>>
  /\ pc = "app"
  /\ ci = 1 /\ vi = 1 /\ pi = 1
  /\ hasProvNew = FALSE /\ newDetails = EmptyDetails /\ hasTPNew = FALSE
  /\ events = <<>> /\ warnings = <<>>
  /\ provenanceCache = << >>
  /\ provenanceDetailsCache = << >>
  /\ trustedPublisherCache = << >>
  /\ calls = [s \in Slots |-> IdleCall]
  /\ requests = {}
  /\ history = [s \in Slots |-> << >>]
  /\ outputs = <<>> /\ annotations = <<>> /\ exitCode = 0

\* the function returns out; its arguments are left as they were
Return(fn, out) ==
  /\ pc = "app"
  /\ app.fn = fn
  /\ ~app.done
  /\ app' = [app EXCEPT !.out = out, !.done = TRUE]
  /\ UNCHANGED << inputs, env, previousDeps, currentDeps, changed, pc, ci, vi, pi,
                  hasProvNew, newDetails, hasTPNew, events, warnings,
                  provenanceCache, provenanceDetailsCache, trustedPublisherCache,
                  calls, requests, history, outputs, annotations, exitCode >>

\* a VersionsSet as addVersion builds it: names in insertion order, each with
\* a non-empty set of versions in insertion order
DiffNamesUniverse == {"a", "b"}

InitDiff ==
  LET
    DiffVersions == {"1", "2"}

    VersionsSets ==
      LET sets == OrderedSets(DiffVersions, Cardinality(DiffVersions)) \ {<<>>}
          keys == OrderedSets(DiffNamesUniverse, Cardinality(DiffNamesUniverse))
      IN  UNION {{[i \in 1..Len(k) |-> [name |-> k[i], versions |-> v[i]]] :
                    v \in [1..Len(k) -> sets]} : k \in keys}
  IN
                InitApp("diffDependencySets", VersionsSets \X VersionsSets)

ApplyDiff == Return("diffDependencySets", diffDependencySets(app.args[1], app.args[2]))

SpecDiff == InitDiff /\ [][ApplyDiff]_vars

\* attestation payloads with GitHub, non-GitHub and unparseable repository
\* information in each of the three places
InitExtract ==
  LET repositories == {None, "owner/repo", "https://github.com/owner/repo.git",
                       "https://enterprise.github.com/owner/repo",
                       "https://gitlab.com/owner/repo",
                       "git+ssh://gitlab.com/owner/repo.git", "not a url"}
      refs == {None, "refs/heads/dev"}
      uris == {None, "git+https://github.com/me/proj@refs/heads/feat",
               "https://gitlab.com/owner/repo@refs/heads/main", "::::",
               "https://github.com/onlyowner"}
      deps == SeqsUpTo({None, "https://github.com/acme/pkg.git",
                        "https://gitlab.com/x/y"}, 2)
  IN  InitApp("extractRepoAndRef",
              {Attestation(r, f, u, d) : r \in repositories, f \in refs,
                                         u \in uris, d \in deps})

ApplyExtract == Return("extractRepoAndRef", extractRepoAndRef(app.args))

SpecExtract == InitExtract /\ [][ApplyExtract]_vars

\* hasProvenance with a fresh cache against a registry each of whose three
\* URLs always gives the same answer (provenance.ts 18-60)
hasProvenanceOn(registry) ==
  LET first == hasProvenanceAttest(registry.ep1)
      second == hasProvenanceAttest(registry.ep2)
  IN  IF first.verdict # "next" THEN first.verdict = "true"
      ELSE IF second.verdict # "next" THEN second.verdict = "true"
      ELSE hasProvenanceMeta(registry.meta).has

\* getProvenanceDetails with a fresh cache against the same registry
\* (provenance.ts 76-131)
getProvenanceDetailsOn(registry) ==
  LET first == getProvenanceDetailsAttest(registry.ep1)
      second == getProvenanceDetailsAttest(registry.ep2)
  IN  IF first.verdict # "next" THEN first.details
      ELSE IF second.verdict # "next" THEN second.details
      ELSE getProvenanceDetailsMeta(registry.meta).details

\* registries: every answer of the first attestation endpoint and of the
\* metadata endpoint over lists of three attestation shapes (a heads ref
\* without repository, a tag ref with repository, a repository alone), and
\* the answers of the second attestation endpoint with at most one attestation
InitRegistry ==
  LET shapes == {Attestation(None, "refs/heads/main", None, <<>>),
                 Attestation("o/r1", "refs/tags/v1", None, <<>>),
                 Attestation("o/r1", None, None, <<>>)}
      lists == SeqsUpTo(shapes, MaxAtts)
      few == {l \in lists : Len(l) <= 1}
  IN  InitApp("lookups", [ep1  : AttestResponses(lists),
                          ep2  : AttestResponses(few),
                          meta : MetaResponses(lists, {NoUser})])

ApplyRegistry ==
  Return("lookups", [has     |-> hasProvenanceOn(app.args),
                     details |-> getProvenanceDetailsOn(app.args)])

SpecRegistry == InitRegistry /\ [][ApplyRegistry]_vars

-----------------------------------------------------------------------------
(* Inputs of a run *)

Entry(name, versions) ==
  IF Len(versions) = 0 THEN <<>> ELSE <<[name |-> name, versions |-> versions]>>

\* every run environment: a lockfile may be missing or unreadable
Environments ==
  LET
    VersionOrder == <<"1", "2", "3", "4">>

    \* Versions are opaque to the program (compared for equality only), so the
    \* lockfiles name them in the order of first use: base lockfile, then head.
    FirstUseOrder(q) ==
      \A i \in 1..Len(q) : \A k \in 2..Len(VersionOrder) :
         q[i] = VersionOrder[k] => \E j \in 1..(i - 1) : q[j] = VersionOrder[k - 1]

    \* package "a" with any version sets, package "b" present or not on each side
    LockfilePairs ==
      {[baseDeps |-> Entry("a", pa) \o Entry("b", pb),
        headDeps |-> Entry("a", ca) \o Entry("b", cb)] :
         pa \in OrderedSets(Versions, MaxEntries),
         ca \in OrderedSets(Versions, MaxHead),
         pb \in {<<>>, <<"1">>}, cb \in {<<>>, <<"1">>}}

    CanonicalPairs ==
      {p \in LockfilePairs :
         /\ Len(Get(p.baseDeps, "a")) + Len(Get(p.baseDeps, "b"))
              + Len(Get(p.headDeps, "a")) + Len(Get(p.headDeps, "b")) <= MaxEntries
         /\ FirstUseOrder(Get(p.baseDeps, "a") \o Get(p.headDeps, "a"))}
  IN
      {[lockfile |-> TRUE, head |-> TRUE, base |-> TRUE,
        headDeps |-> p.headDeps, baseDeps |-> p.baseDeps, registry |-> "any"] : p \in CanonicalPairs}
      \cup {e \in [lockfile : BOOLEAN, head : BOOLEAN, base : BOOLEAN,
                   headDeps : {<<>>}, baseDeps : {<<>>}, registry : {"any"}] :
              ~(e.lockfile /\ e.head /\ e.base)}

InitRun(ins, envs) ==
  /\ inputs \in ins
  /\ env \in envs
  /\ previousDeps = <<>>
  /\ currentDeps = <<>>
  /\ changed = <<>>
  /\ pc = "start"
  /\ ci = 1 /\ vi = 1 /\ pi = 1
  /\ hasProvNew = FALSE /\ newDetails = EmptyDetails /\ hasTPNew = FALSE
  /\ events = <<>> /\ warnings = <<>>
  /\ provenanceCache = << >>
  /\ provenanceDetailsCache = << >>
  /\ trustedPublisherCache = << >>
  /\ calls = [s \in Slots |-> IdleCall]
  /\ requests = {}
  /\ history = [s \in Slots |-> << >>]
  /\ outputs = <<>> /\ annotations = <<>> /\ exitCode = 0
  /\ app = NoApp

Init ==
  LET
    DefaultInputs == {[failOnDowngrade |-> None, failOnProvChange |-> None]}
  IN
            InitRun(DefaultInputs, Environments)

InitPolicy ==
  LET
    \* one package, one previous and one new version
    PolicyEnvironments ==
      {[lockfile |-> TRUE, head |-> TRUE, base |-> TRUE,
        headDeps |-> Entry("a", <<"2">>), baseDeps |-> Entry("a", <<"1">>),
        registry |-> "any"]}

    FailOnDowngradeInputs ==
      {None, "", "true", "TRUE", "any", "false", "only-provenance-loss", "off"}

    FailOnProvChangeInputs == {None, "true", "True", "false"}

    AllInputs == [failOnDowngrade : FailOnDowngradeInputs,
                  failOnProvChange : FailOnProvChangeInputs]
  IN
                  InitRun(AllInputs, PolicyEnvironments)

-----------------------------------------------------------------------------
(* run (src/lib/git.ts) *)

\* getInput(name) || dflt, lower-cased
InputValue(raw, dflt) == toLowerCase(IF raw = None \/ raw = "" THEN dflt ELSE raw)

failOnDowngradeValue == InputValue(inputs.failOnDowngrade, "true")

\* mutant: `any` is not accepted
failAnyDowngradeTrueOnly ==
  \/ failOnDowngradeValue = "true"
  \/ failOnDowngradeValue = ""

failAnyDowngrade ==
  \/ failOnDowngradeValue = "true"
  \/ failOnDowngradeValue = "any"
  \/ failOnDowngradeValue = ""

failOnlyProvenanceLoss == failOnDowngradeValue = "only-provenance-loss"

failOnProvChange == InputValue(inputs.failOnProvChange, "false") = "true"

\* mutant: packages with an empty side are not skipped
RECURSIVE AdvanceEmptySides(_, _)
AdvanceEmptySides(c, v) ==
  IF c > Len(changed) THEN [ci |-> c, vi |-> 1]
  ELSE IF v > Len(changed[c].current) THEN AdvanceEmptySides(c + 1, 1)
  ELSE IF changed[c].current[v] \in Elems(changed[c].previous)
    THEN AdvanceEmptySides(c, v + 1)
  ELSE [ci |-> c, vi |-> v]

\* the next (change, new version) at or after position (c, v) that the two
\* loops do not skip; c > Len(changed) when there is none
RECURSIVE Advance(_, _)
Advance(c, v) ==
  IF c > Len(changed) THEN [ci |-> c, vi |-> 1]
  ELSE IF Len(changed[c].previous) = 0 \/ Len(changed[c].current) = 0
    THEN Advance(c + 1, 1)
  ELSE IF v > Len(changed[c].current) THEN Advance(c + 1, 1)
  ELSE IF changed[c].current[v] \in Elems(changed[c].previous) THEN Advance(c, v + 1)
  ELSE [ci |-> c, vi |-> v]

change == changed[ci]

\* mutant: the new versions of a package are visited last to first
newVersionBackwards == changed[ci].current[Len(changed[ci].current) + 1 - vi]

newVersion == changed[ci].current[vi]

prevVersion == changed[ci].previous[pi]

\* lines 44-88: inputs, lockfile snapshots, diff, fresh caches
Start ==
  /\ pc = "start"
  /\ IF ~env.lockfile
       THEN /\ pc' = "done"
            /\ UNCHANGED << previousDeps, currentDeps, changed, exitCode >>
     ELSE IF ~env.head
       THEN /\ pc' = "done"
            /\ exitCode' = 1
            /\ UNCHANGED << previousDeps, currentDeps, changed >>
     ELSE IF ~env.base
       THEN /\ pc' = "done"
            /\ UNCHANGED << previousDeps, currentDeps, changed, exitCode >>
     ELSE /\ currentDeps' = env.headDeps
          /\ previousDeps' = env.baseDeps
          /\ changed' = diffDependencySets(env.baseDeps, env.headDeps)
          /\ pc' = IF Len(changed') = 0 THEN "done" ELSE "loop"
          /\ UNCHANGED exitCode
  /\ UNCHANGED << app, inputs, env, ci, vi, pi, hasProvNew, newDetails, hasTPNew,
                  events, warnings, provenanceCache, provenanceDetailsCache,
                  trustedPublisherCache, calls, requests, history,
                  outputs, annotations >>

\* lines 89-101: advance to the next new version and issue its three lookups
NextVersion ==
  /\ pc = "loop"
  /\ LET pos == Advance(ci, vi) IN
     /\ ci' = pos.ci
     /\ vi' = pos.vi
     /\ IF pos.ci > Len(changed)
          THEN /\ pc' = "report"
               /\ UNCHANGED << calls, requests >>
          ELSE LET name == changed[pos.ci].name
                   ver  == changed[pos.ci].current[pos.vi]
               IN  /\ pc' = "all"
                   /\ calls' = [prov |-> hasProvenanceCall(name, ver),
                                det  |-> getProvenanceDetailsCall(name, ver),
                                tp   |-> hasTrustedPublisherCall(name, ver)]
                   /\ requests' = requests
                        \cup IssuedBy("prov", hasProvenanceCall(name, ver))
                        \cup IssuedBy("det", getProvenanceDetailsCall(name, ver))
                        \cup IssuedBy("tp", hasTrustedPublisherCall(name, ver))
  /\ UNCHANGED << app, inputs, env, previousDeps, currentDeps, changed, pi,
                  hasProvNew, newDetails, hasTPNew, events, warnings,
                  provenanceCache, provenanceDetailsCache, trustedPublisherCache,
                  history, outputs, annotations, exitCode >>

\* mutant: the details of the new version are not taken from their lookup
AwaitAllDropsDetails ==
  /\ pc = "all"
  /\ \A s \in Slots : calls[s].st = "done"
  /\ hasProvNew' = calls["prov"].ret
  /\ newDetails' = EmptyDetails
  /\ hasTPNew' = calls["tp"].ret
  /\ history' = [fn \in Slots |-> Remember(fn)[fn]]
  /\ calls' = [s \in Slots |-> IdleCall]
  /\ pi' = 1
  /\ pc' = "tp"
  /\ UNCHANGED << app, inputs, env, previousDeps, currentDeps, changed, ci, vi,
                  events, warnings, provenanceCache, provenanceDetailsCache,
                  trustedPublisherCache, requests, outputs, annotations, exitCode >>

\* lines 97-101: Promise.all resolves once the three lookups have settled
AwaitAll ==
  /\ pc = "all"
  /\ \A s \in Slots : calls[s].st = "done"
  /\ hasProvNew' = calls["prov"].ret
  /\ newDetails' = calls["det"].details
  /\ hasTPNew' = calls["tp"].ret
  /\ history' = [fn \in Slots |-> Remember(fn)[fn]]
  /\ calls' = [s \in Slots |-> IdleCall]
  /\ pi' = 1
  /\ pc' = "tp"
  /\ UNCHANGED << app, inputs, env, previousDeps, currentDeps, changed, ci, vi,
                  events, warnings, provenanceCache, provenanceDetailsCache,
                  trustedPublisherCache, requests, outputs, annotations, exitCode >>

\* lines 103-105: next previous version of the trusted-publisher scan
TrustedPublisherLoop ==
  /\ pc = "tp"
  /\ IF hasTPNew \/ pi > Len(change.previous)
       THEN /\ pc' = "prov"
            /\ pi' = 1
            /\ UNCHANGED << calls, requests >>
       ELSE /\ pc' = "tpWait"
            /\ calls' = [calls EXCEPT !["tp"] = hasTrustedPublisherCall(change.name, prevVersion)]
            /\ requests' = requests
                 \cup IssuedBy("tp", hasTrustedPublisherCall(change.name, prevVersion))
            /\ UNCHANGED pi
  /\ UNCHANGED << app, inputs, env, previousDeps, currentDeps, changed, ci, vi,
                  hasProvNew, newDetails, hasTPNew, events, warnings,
                  provenanceCache, provenanceDetailsCache, trustedPublisherCache,
                  history, outputs, annotations, exitCode >>

\* mutant: keptProvenance is taken from the wrong lookup
TrustedPublisherResumeWrongKept ==
  /\ pc = "tpWait"
  /\ calls["tp"].st = "done"
  /\ IF calls["tp"].ret
       THEN /\ events' = Append(events,
                 [name |-> change.name, from |-> prevVersion, to |-> newVersion,
                  downgradeType |-> "trusted_publisher", keptProvenance |-> hasTPNew])
            /\ pc' = "prov"
            /\ pi' = 1
       ELSE /\ pc' = "tp"
            /\ pi' = pi + 1
            /\ UNCHANGED events
  /\ history' = Remember("tp")
  /\ calls' = [calls EXCEPT !["tp"] = IdleCall]
  /\ UNCHANGED << app, inputs, env, previousDeps, currentDeps, changed, ci, vi,
                  hasProvNew, newDetails, hasTPNew, warnings,
                  provenanceCache, provenanceDetailsCache, trustedPublisherCache,
                  requests, outputs, annotations, exitCode >>

\* mutant: the scan goes on after the first event
TrustedPublisherResumeNoBreak ==
  /\ pc = "tpWait"
  /\ calls["tp"].st = "done"
  /\ events' = IF calls["tp"].ret
                 THEN Append(events,
                   [name |-> change.name, from |-> prevVersion, to |-> newVersion,
                    downgradeType |-> "trusted_publisher", keptProvenance |-> hasProvNew])
                 ELSE events
  /\ pc' = "tp"
  /\ pi' = pi + 1
  /\ history' = Remember("tp")
  /\ calls' = [calls EXCEPT !["tp"] = IdleCall]
  /\ UNCHANGED << app, inputs, env, previousDeps, currentDeps, changed, ci, vi,
                  hasProvNew, newDetails, hasTPNew, warnings,
                  provenanceCache, provenanceDetailsCache, trustedPublisherCache,
                  requests, outputs, annotations, exitCode >>

\* lines 105-110
TrustedPublisherResume ==
  /\ pc = "tpWait"
  /\ calls["tp"].st = "done"
  /\ IF calls["tp"].ret
       THEN /\ events' = Append(events,
                 [name |-> change.name, from |-> prevVersion, to |-> newVersion,
                  downgradeType |-> "trusted_publisher", keptProvenance |-> hasProvNew])
            /\ pc' = "prov"
            /\ pi' = 1
       ELSE /\ pc' = "tp"
            /\ pi' = pi + 1
            /\ UNCHANGED events
  /\ history' = Remember("tp")
  /\ calls' = [calls EXCEPT !["tp"] = IdleCall]
  /\ UNCHANGED << app, inputs, env, previousDeps, currentDeps, changed, ci, vi,
                  hasProvNew, newDetails, hasTPNew, warnings,
                  provenanceCache, provenanceDetailsCache, trustedPublisherCache,
                  requests, outputs, annotations, exitCode >>

\* mutant: the `continue` of line 121 is missing
ProvenanceLoopFallsThrough ==
  /\ pc = "prov"
  /\ IF hasProvNew \/ pi > Len(change.previous)
       THEN /\ pc' = "det"
            /\ pi' = 1
            /\ UNCHANGED << vi, calls, requests >>
       ELSE /\ pc' = "provWait"
            /\ calls' = [calls EXCEPT !["prov"] = hasProvenanceCall(change.name, prevVersion)]
            /\ requests' = requests
                 \cup IssuedBy("prov", hasProvenanceCall(change.name, prevVersion))
            /\ UNCHANGED << vi, pi >>
  /\ UNCHANGED << app, inputs, env, previousDeps, currentDeps, changed, ci,
                  hasProvNew, newDetails, hasTPNew, events, warnings,
                  provenanceCache, provenanceDetailsCache, trustedPublisherCache,
                  history, outputs, annotations, exitCode >>

\* lines 113-115 and 121: next previous version of the provenance scan
ProvenanceLoop ==
  /\ pc = "prov"
  /\ IF hasProvNew
       THEN /\ pc' = "det"
            /\ UNCHANGED << vi, pi, calls, requests >>
     ELSE IF pi > Len(change.previous)
       THEN /\ pc' = "loop"
            /\ vi' = vi + 1
            /\ UNCHANGED << pi, calls, requests >>
     ELSE /\ pc' = "provWait"
          /\ calls' = [calls EXCEPT !["prov"] = hasProvenanceCall(change.name, prevVersion)]
          /\ requests' = requests
               \cup IssuedBy("prov", hasProvenanceCall(change.name, prevVersion))
          /\ UNCHANGED << vi, pi >>
  /\ UNCHANGED << app, inputs, env, previousDeps, currentDeps, changed, ci,
                  hasProvNew, newDetails, hasTPNew, events, warnings,
                  provenanceCache, provenanceDetailsCache, trustedPublisherCache,
                  history, outputs, annotations, exitCode >>

\* mutant: the event names the last previous version with provenance
ProvenanceResumeNoBreak ==
  /\ pc = "provWait"
  /\ calls["prov"].st = "done"
  /\ events' = IF calls["prov"].ret
                 THEN Append(events,
                   [name |-> change.name, from |-> prevVersion, to |-> newVersion,
                    downgradeType |-> "provenance"])
                 ELSE events
  /\ pc' = "prov"
  /\ pi' = pi + 1
  /\ UNCHANGED vi
  /\ history' = Remember("prov")
  /\ calls' = [calls EXCEPT !["prov"] = IdleCall]
  /\ UNCHANGED << app, inputs, env, previousDeps, currentDeps, changed, ci,
                  hasProvNew, newDetails, hasTPNew, warnings,
                  provenanceCache, provenanceDetailsCache, trustedPublisherCache,
                  requests, outputs, annotations, exitCode >>

\* lines 115-121
ProvenanceResume ==
  /\ pc = "provWait"
  /\ calls["prov"].st = "done"
  /\ IF calls["prov"].ret
       THEN /\ events' = Append(events,
                 [name |-> change.name, from |-> prevVersion, to |-> newVersion,
                  downgradeType |-> "provenance"])
            /\ pc' = "loop"
            /\ vi' = vi + 1
            /\ UNCHANGED pi
       ELSE /\ pc' = "prov"
            /\ pi' = pi + 1
            /\ UNCHANGED << events, vi >>
  /\ history' = Remember("prov")
  /\ calls' = [calls EXCEPT !["prov"] = IdleCall]
  /\ UNCHANGED << app, inputs, env, previousDeps, currentDeps, changed, ci,
                  hasProvNew, newDetails, hasTPNew, warnings,
                  provenanceCache, provenanceDetailsCache, trustedPublisherCache,
                  requests, outputs, annotations, exitCode >>

\* lines 124-125: next previous version of the repository/branch scan
DetailsLoop ==
  /\ pc = "det"
  /\ IF pi > Len(change.previous)
       THEN /\ pc' = "loop"
            /\ vi' = vi + 1
            /\ UNCHANGED << calls, requests >>
       ELSE /\ pc' = "detWait"
            /\ calls' = [calls EXCEPT !["det"] =
                           getProvenanceDetailsCall(change.name, prevVersion)]
            /\ requests' = requests
                 \cup IssuedBy("det", getProvenanceDetailsCall(change.name, prevVersion))
            /\ UNCHANGED vi
  /\ UNCHANGED << app, inputs, env, previousDeps, currentDeps, changed, ci, pi,
                  hasProvNew, newDetails, hasTPNew, events, warnings,
                  provenanceCache, provenanceDetailsCache, trustedPublisherCache,
                  history, outputs, annotations, exitCode >>

\* mutant: repositories are not compared
CompareDetailsBranchOnly(prevDetails) ==
  IF ~prevDetails.has THEN "continue"
  ELSE IF /\ Truthy(prevDetails.branch) /\ Truthy(newDetails.branch)
          /\ prevDetails.branch # newDetails.branch
    THEN "branch_changed"
  ELSE "continue"

\* lines 126-137: what the scan does with the details of one previous version
CompareDetails(prevDetails) ==
  IF ~prevDetails.has THEN "continue"
  ELSE IF /\ Truthy(prevDetails.repository) /\ Truthy(newDetails.repository)
          /\ prevDetails.repository # newDetails.repository
    THEN "repo_changed"
  ELSE IF /\ Truthy(prevDetails.branch) /\ Truthy(newDetails.branch)
          /\ prevDetails.branch # newDetails.branch
    THEN "branch_changed"
  ELSE "continue"

\* lines 125-138
DetailsResume ==
  /\ pc = "detWait"
  /\ calls["det"].st = "done"
  /\ LET prevDetails == calls["det"].details
         verdict == CompareDetails(prevDetails)
     IN  IF verdict = "continue"
           THEN /\ pc' = "det"
                /\ pi' = pi + 1
                /\ UNCHANGED << warnings, vi >>
           ELSE /\ warnings' = Append(warnings,
                     [name |-> change.name, from |-> prevVersion, to |-> newVersion,
                      type |-> verdict,
                      prevRepo |-> IF verdict = "repo_changed"
                                     THEN prevDetails.repository ELSE None,
                      newRepo |-> IF verdict = "repo_changed"
                                    THEN newDetails.repository ELSE None,
                      prevBranch |-> IF verdict = "branch_changed"
                                       THEN prevDetails.branch ELSE None,
                      newBranch |-> IF verdict = "branch_changed"
                                      THEN newDetails.branch ELSE None])
                /\ pc' = "loop"
                /\ vi' = vi + 1
                /\ UNCHANGED pi
  /\ history' = Remember("det")
  /\ calls' = [calls EXCEPT !["det"] = IdleCall]
  /\ UNCHANGED << app, inputs, env, previousDeps, currentDeps, changed, ci,
                  hasProvNew, newDetails, hasTPNew, events,
                  provenanceCache, provenanceDetailsCache, trustedPublisherCache,
                  requests, outputs, annotations, exitCode >>

\* line 171: does this downgrade event count toward failure
shouldFail(d) ==
  failAnyDowngrade \/ (failOnlyProvenanceLoss /\ d.downgradeType = "provenance")

EventAnnotation(d) ==
  [level |-> IF shouldFail(d) THEN "error" ELSE "warning",
   name |-> d.name, to |-> d.to, kind |-> d.downgradeType]

\* mutant: a change warning is always annotated as a warning
WarningAnnotationNeverError(w) ==
  [level |-> "warning", name |-> w.name, to |-> w.to, kind |-> w.type]

WarningAnnotation(w) ==
  [level |-> IF failOnProvChange THEN "error" ELSE "warning",
   name |-> w.name, to |-> w.to, kind |-> w.type]

\* lines 192-204: the JSON written to the two outputs
OutputEvent(e) ==
  [name |-> e.name, from |-> e.from, to |-> e.to, downgradeType |-> e.downgradeType]

\* lines 206-211
ExitCodeAfter ==
  IF failAnyDowngrade \/ failOnlyProvenanceLoss \/ failOnProvChange
    THEN IF \/ \E i \in 1..Len(events) : shouldFail(events[i])
            \/ (failOnProvChange /\ Len(warnings) > 0)
           THEN 1 ELSE exitCode
    ELSE exitCode

\* lines 142-211: outputs, annotations and exit code, without suspension
Report ==
  /\ pc = "report"
  /\ pc' = "done"
  /\ IF Len(events) = 0 /\ Len(warnings) = 0
       THEN /\ outputs' = outputs \o <<[name |-> "downgraded", value |-> <<>>],
                                       [name |-> "changed", value |-> <<>>]>>
            /\ UNCHANGED << annotations, exitCode >>
       ELSE /\ outputs' = outputs
                 \o (IF Len(events) = 0
                       THEN <<[name |-> "downgraded", value |-> <<>>]>> ELSE <<>>)
                 \o <<[name |-> "downgraded",
                       value |-> [i \in 1..Len(events) |-> OutputEvent(events[i])]],
                      [name |-> "changed", value |-> warnings]>>
            /\ annotations' = annotations
                 \o [i \in 1..Len(events) |-> EventAnnotation(events[i])]
                 \o [i \in 1..Len(warnings) |-> WarningAnnotation(warnings[i])]
            /\ exitCode' = ExitCodeAfter
  /\ UNCHANGED << app, inputs, env, previousDeps, currentDeps, changed, ci, vi, pi,
                  hasProvNew, newDetails, hasTPNew, events, warnings,
                  provenanceCache, provenanceDetailsCache, trustedPublisherCache,
                  calls, requests, history >>

Next ==
  \/ Start
  \/ NextVersion
  \/ AwaitAll
  \/ TrustedPublisherLoop
  \/ TrustedPublisherResume
  \/ ProvenanceLoop
  \/ ProvenanceResume
  \/ DetailsLoop
  \/ DetailsResume
  \/ Report
  \/ Responses

Spec == Init /\ [][Next]_vars

SpecPolicy == InitPolicy /\ [][Next]_vars

\* two changed packages, the first with two new versions, on a plain registry
InitOrder ==
  InitRun({[failOnDowngrade |-> None, failOnProvChange |-> None]},
          {[lockfile |-> TRUE, head |-> TRUE, base |-> TRUE,
            baseDeps |-> Entry("a", <<"1">>) \o Entry("b", <<"1">>),
            headDeps |-> Entry("a", <<"2", "3">>) \o Entry("b", <<"2">>),
            registry |-> "plain"]})

SpecOrder == InitOrder /\ [][Next]_vars

\* one changed package with one previous and one new version, on a plain registry
InitLive ==
  InitRun({[failOnDowngrade |-> None, failOnProvChange |-> None]},
          {[lockfile |-> TRUE, head |-> TRUE, base |-> TRUE,
            baseDeps |-> Entry("a", <<"1">>), headDeps |-> Entry("a", <<"2">>),
            registry |-> "plain"]})

\* a step of run itself: the code between two awaits
RunStep ==
  \/ Start
  \/ NextVersion
  \/ AwaitAll
  \/ TrustedPublisherLoop
  \/ TrustedPublisherResume
  \/ ProvenanceLoop
  \/ ProvenanceResume
  \/ DetailsLoop
  \/ DetailsResume
  \/ Report

\* Every registry request eventually completes, with a response or an error,
\* and the event loop eventually runs a continuation that is ready.
SpecLive ==
  InitLive /\ [][Next]_vars /\ WF_vars(Responses) /\ WF_vars(RunStep)

\* The detector of src/unnamed/part_000, lines 129-184, which awaits the three
\* lookups of a new version one after another, run over `changed` against a
\* registry whose lookups answer prov[key], det[key] and tp[key].
SequentialDetector(prov, det, tp) ==
  LET
    Nothing == [events |-> <<>>, warnings |-> <<>>]

    Both(x, y) == [events |-> x.events \o y.events, warnings |-> x.warnings \o y.warnings]

    RECURSIVE TrustedPublisherScan(_, _, _), ProvenanceScan(_, _, _),
              DetailsScan(_, _, _), NewVersions_(_, _), Packages(_)

    \* lines 143-151
    TrustedPublisherScan(c, to, p) ==
      IF p > Len(c.previous) THEN <<>>
      ELSE IF tp[Key(c.name, c.previous[p])]
        THEN <<[name |-> c.name, from |-> c.previous[p], to |-> to,
                downgradeType |-> "trusted_publisher",
                keptProvenance |-> prov[Key(c.name, to)]]>>
      ELSE TrustedPublisherScan(c, to, p + 1)

    \* lines 154-162
    ProvenanceScan(c, to, p) ==
      IF p > Len(c.previous) THEN <<>>
      ELSE IF prov[Key(c.name, c.previous[p])]
        THEN <<[name |-> c.name, from |-> c.previous[p], to |-> to,
                downgradeType |-> "provenance"]>>
      ELSE ProvenanceScan(c, to, p + 1)

    \* lines 165-181
    DetailsScan(c, to, p) ==
      IF p > Len(c.previous) THEN <<>>
      ELSE
        LET prevDetails == det[Key(c.name, c.previous[p])]
            newDet == det[Key(c.name, to)]
        IN  IF ~prevDetails.has THEN DetailsScan(c, to, p + 1)
            ELSE IF /\ Truthy(prevDetails.repository) /\ Truthy(newDet.repository)
                    /\ prevDetails.repository # newDet.repository
              THEN <<[name |-> c.name, from |-> c.previous[p], to |-> to,
                      type |-> "repo_changed",
                      prevRepo |-> prevDetails.repository, newRepo |-> newDet.repository,
                      prevBranch |-> None, newBranch |-> None]>>
            ELSE IF /\ Truthy(prevDetails.branch) /\ Truthy(newDet.branch)
                    /\ prevDetails.branch # newDet.branch
              THEN <<[name |-> c.name, from |-> c.previous[p], to |-> to,
                      type |-> "branch_changed",
                      prevRepo |-> None, newRepo |-> None,
                      prevBranch |-> prevDetails.branch, newBranch |-> newDet.branch]>>
            ELSE DetailsScan(c, to, p + 1)

    \* lines 138-182: one new version
    NewVersion_(c, to) ==
      [events |->
         (IF ~tp[Key(c.name, to)] THEN TrustedPublisherScan(c, to, 1) ELSE <<>>)
         \o (IF ~prov[Key(c.name, to)] THEN ProvenanceScan(c, to, 1) ELSE <<>>),
       warnings |-> IF prov[Key(c.name, to)] THEN DetailsScan(c, to, 1) ELSE <<>>]

    \* lines 135-136
    NewVersions_(c, v) ==
      IF v > Len(c.current) THEN Nothing
      ELSE Both(IF c.current[v] \in Elems(c.previous) THEN Nothing
                ELSE NewVersion_(c, c.current[v]),
                NewVersions_(c, v + 1))

    \* lines 129-132
    Packages(i) ==
      IF i > Len(changed) THEN Nothing
      ELSE Both(IF Len(changed[i].previous) = 0 \/ Len(changed[i].current) = 0
                  THEN Nothing
                  ELSE NewVersions_(changed[i], 1),
                Packages(i + 1))
  IN
    Packages(1)

-----------------------------------------------------------------------------
(* JavaScript strings and JSON.parse, as the lockfile parsers use them *)

Char(s, i) == SubSeq(s, i, i)

\* \s of a regular expression
IsSpace(c) == c \in {" ", "\t", "\n", "\r", "\f"}

\* s.includes(sub)
Includes(s, sub) ==
  \E i \in 1..(Len(s) - Len(sub) + 1) : SubSeq(s, i, i + Len(sub) - 1) = sub

RECURSIVE trimStart(_)
trimStart(s) ==
  IF Len(s) > 0 /\ IsSpace(Char(s, 1)) THEN trimStart(SubSeq(s, 2, Len(s))) ELSE s

RECURSIVE trimEnd(_)
trimEnd(s) ==
  IF Len(s) > 0 /\ IsSpace(Char(s, Len(s))) THEN trimEnd(SubSeq(s, 1, Len(s) - 1)) ELSE s

trim(s) == trimStart(trimEnd(s))

\* s.split(sep) for a non-empty separator
RECURSIVE Split(_, _)
Split(s, sep) ==
  LET k == IndexOf(s, sep, 1) IN
  IF k = 0 THEN <<s>>
  ELSE <<SubSeq(s, 1, k - 1)>> \o Split(SubSeq(s, k + Len(sep), Len(s)), sep)

\* s.split(/\r?\n/)
RECURSIVE SplitLines(_)
SplitLines(s) ==
  LET k == IndexOf(s, "\n", 1) IN
  IF k = 0 THEN <<s>>
  ELSE LET e == IF k > 1 /\ Char(s, k - 1) = "\r" THEN k - 2 ELSE k - 1
       IN  <<SubSeq(s, 1, e)>> \o SplitLines(SubSeq(s, k + 1, Len(s)))

\* array.filter(Boolean) on strings
RECURSIVE NonEmpty(_)
NonEmpty(q) ==
  IF Len(q) = 0 THEN <<>>
  ELSE IF Head(q) = "" THEN NonEmpty(Tail(q))
  ELSE <<Head(q)>> \o NonEmpty(Tail(q))

\* A JSON value: t is its type, s the text of a string or number, kids the
\* members of an object (k = key) or the elements of an array (k = index)
Json(t, str, kids) == [t |-> t, s |-> str, kids |-> kids]

Undefined == Json("undefined", "", <<>>)

IndexText == <<"0", "1", "2", "3", "4", "5", "6", "7", "8", "9">>

\* JSON.parse(content): ok = FALSE is the SyntaxError it throws
JSONParse(content) ==
  LET
    Failed == [ok |-> FALSE, v |-> Undefined, next |-> 0]

    RECURSIVE SkipSpace(_, _)
    SkipSpace(s, i) ==
      IF i <= Len(s) /\ Char(s, i) \in {" ", "\t", "\n", "\r"} THEN SkipSpace(s, i + 1) ELSE i

    Digits == "0123456789"

    IsDigit(c) == \E i \in 1..Len(Digits) : Char(Digits, i) = c

    RECURSIVE DigitsEnd(_, _)
    DigitsEnd(s, i) == IF i <= Len(s) /\ IsDigit(Char(s, i)) THEN DigitsEnd(s, i + 1) ELSE i

    \* JSON.parse, for texts without escapes, fractions, exponents and signs:
    \* the value starting at position i and the position after it
    RECURSIVE ParseValue(_, _), ParseElements(_, _, _), ParseMembers(_, _, _)
    ParseValue(s, i) ==
      LET j == SkipSpace(s, i)
          c == IF j <= Len(s) THEN Char(s, j) ELSE ""
          word(w, t) == IF j + Len(w) - 1 <= Len(s) /\ SubSeq(s, j, j + Len(w) - 1) = w
                          THEN [ok |-> TRUE, v |-> Json(t, "", <<>>), next |-> j + Len(w)]
                          ELSE Failed
      IN
      IF c = "" THEN Failed
      ELSE IF c = "n" THEN word("null", "null")
      ELSE IF c = "t" THEN word("true", "true")
      ELSE IF c = "f" THEN word("false", "false")
      ELSE IF IsDigit(c)
        THEN LET e == DigitsEnd(s, j) IN
             IF e - j > 1 /\ c = "0" THEN Failed
             ELSE [ok |-> TRUE, v |-> Json("number", SubSeq(s, j, e - 1), <<>>), next |-> e]
      ELSE IF c = "\""
        THEN LET e == IndexOf(s, "\"", j + 1) IN
             IF e = 0 \/ Includes(SubSeq(s, j + 1, e - 1), "\\") THEN Failed
             ELSE [ok |-> TRUE, v |-> Json("string", SubSeq(s, j + 1, e - 1), <<>>), next |-> e + 1]
      ELSE IF c = "["
        THEN LET k == SkipSpace(s, j + 1) IN
             IF k <= Len(s) /\ Char(s, k) = "]"
               THEN [ok |-> TRUE, v |-> Json("array", "", <<>>), next |-> k + 1]
               ELSE ParseElements(s, j + 1, <<>>)
      ELSE IF c = "{"
        THEN LET k == SkipSpace(s, j + 1) IN
             IF k <= Len(s) /\ Char(s, k) = "}"
               THEN [ok |-> TRUE, v |-> Json("object", "", <<>>), next |-> k + 1]
               ELSE ParseMembers(s, j + 1, <<>>)
      ELSE Failed

    ParseElements(s, i, acc) ==
      LET r == ParseValue(s, i) IN
      IF ~r.ok \/ Len(acc) >= Len(IndexText) THEN Failed
      ELSE LET kids == Append(acc, [k |-> IndexText[Len(acc) + 1], v |-> r.v])
               j == SkipSpace(s, r.next)
               c == IF j <= Len(s) THEN Char(s, j) ELSE ""
           IN  IF c = "," THEN ParseElements(s, j + 1, kids)
               ELSE IF c = "]" THEN [ok |-> TRUE, v |-> Json("array", "", kids), next |-> j + 1]
               ELSE Failed

    ParseMembers(s, i, acc) ==
      LET key == ParseValue(s, i) IN
      IF ~key.ok \/ key.v.t # "string" THEN Failed
      ELSE LET j == SkipSpace(s, key.next) IN
           IF j > Len(s) \/ Char(s, j) # ":" THEN Failed
           ELSE LET r == ParseValue(s, j + 1) IN
                IF ~r.ok THEN Failed
                ELSE LET kids == IF \E x \in 1..Len(acc) : acc[x].k = key.v.s
                                   THEN [x \in 1..Len(acc) |->
                                           IF acc[x].k = key.v.s
                                             THEN [k |-> key.v.s, v |-> r.v] ELSE acc[x]]
                                   ELSE Append(acc, [k |-> key.v.s, v |-> r.v])
                         n == SkipSpace(s, r.next)
                         c == IF n <= Len(s) THEN Char(s, n) ELSE ""
                     IN  IF c = "," THEN ParseMembers(s, n + 1, kids)
                         ELSE IF c = "}"
                           THEN [ok |-> TRUE, v |-> Json("object", "", kids), next |-> n + 1]
                         ELSE Failed
  IN
      LET r == ParseValue(content, 1) IN
      IF r.ok /\ SkipSpace(content, r.next) > Len(content)
        THEN [ok |-> TRUE, v |-> r.v]
        ELSE [ok |-> FALSE, v |-> Undefined]

-----------------------------------------------------------------------------
(* Lockfile parsers (src/unnamed/part_000) *)

\* a parser's outcome: the mapping it returns, or the exception it throws
Returns(map) == [threw |-> FALSE, map |-> map]

Throws == [threw |-> TRUE, map |-> <<>>]

addVersion(map, name, version) ==
  IF \E i \in 1..Len(map) : map[i].name = name
    THEN [i \in 1..Len(map) |->
            IF map[i].name = name /\ version \notin Elems(map[i].versions)
              THEN [map[i] EXCEPT !.versions = Append(@, version)]
              ELSE map[i]]
    ELSE Append(map, [name |-> name, versions |-> <<version>>])

\* json.packages of line 324 is read outside the try block: JSON.parse
\* returns null for the text null, and the read throws a TypeError
parseNpmLock(content) ==
  LET
    \* JavaScript truthiness of a JSON value
    JsonTruthy(v) ==
      ~ \/ v.t \in {"undefined", "null", "false"}
        \/ v.t = "number" /\ v.s = "0"
        \/ v.t = "string" /\ v.s = ""

    \* v[name] for a value other than null and undefined
    Prop(v, name) ==
      IF v.t \in {"object", "array"} /\ \E i \in 1..Len(v.kids) : v.kids[i].k = name
        THEN v.kids[CHOOSE i \in 1..Len(v.kids) : v.kids[i].k = name].v
      ELSE IF v.t = "string" /\ \E i \in 1..Len(v.s) : i <= Len(IndexText) /\ IndexText[i] = name
        THEN Json("string", Char(v.s, CHOOSE i \in 1..Len(v.s) : IndexText[i] = name), <<>>)
      ELSE Undefined

    \* Object.keys(v); the objects modelled have no integer-like keys, which
    \* Object.keys would list first
    ObjectKeys(v) ==
      IF v.t \in {"object", "array"} THEN [i \in 1..Len(v.kids) |-> v.kids[i].k]
      ELSE IF v.t = "string" THEN [i \in 1..Len(v.s) |-> IndexText[i]]
      ELSE <<>>

    \* a name or version as a key of the mapping; a truthy value that is not a
    \* string is stored as it is, shown here by its type
    Stored(v) == IF v.t \in {"string", "number"} THEN v.s ELSE "[" \o v.t \o "]"

    \* lines 332-339: the name derived from a path like node_modules/@scope/name
    DerivedName(key) ==
      LET parts == NonEmpty(Split(key, "node_modules/")) IN
      IF Len(parts) = 0 THEN ""
      ELSE LET last == parts[Len(parts)] IN
           IF EndsWith(last, "/") THEN SubSeq(last, 1, Len(last) - 1) ELSE last

    \* lines 325-342, from the i-th key on
    RECURSIVE NpmPackages(_, _, _, _)
    NpmPackages(packages, keys, i, result) ==
      IF i > Len(keys) THEN result
      ELSE LET key == keys[i]
               entry == Prop(packages, key)
               version == IF JsonTruthy(entry) THEN Prop(entry, "version") ELSE entry
               given == Prop(entry, "name")
               name == IF JsonTruthy(given) THEN Stored(given) ELSE DerivedName(key)
           IN  IF ~JsonTruthy(version) \/ key = "" \/ name = ""
                 THEN NpmPackages(packages, keys, i + 1, result)
                 ELSE NpmPackages(packages, keys, i + 1,
                                  addVersion(result, name, Stored(version)))
  IN
      LET parsed == JSONParse(content) IN
      IF ~parsed.ok THEN Returns(<<>>)
      ELSE IF parsed.v.t = "null" THEN Throws
      ELSE LET found == Prop(parsed.v, "packages")
               packages == IF JsonTruthy(found) THEN found ELSE Json("object", "", <<>>)
           IN  Returns(NpmPackages(packages, ObjectKeys(packages), 1, <<>>))

IsQuoted(key) ==
  \/ StartsWith(key, "\"") /\ EndsWith(key, "\"")
  \/ StartsWith(key, "'") /\ EndsWith(key, "'")

\* mutant: the quotes are removed before the leading slash
PnpmUnwrapQuotesFirst(key) ==
  LET k == IF IsQuoted(key) THEN SubSeq(key, 2, Len(key) - 1) ELSE key
  IN  IF StartsWith(k, "/") THEN SubSeq(k, 2, Len(k)) ELSE k

\* lines 367-373: leading slash first, surrounding quotes second
PnpmUnwrap(key) ==
  LET k == IF StartsWith(key, "/") THEN SubSeq(key, 2, Len(key)) ELSE key
  IN  IF IsQuoted(k) THEN SubSeq(k, 2, Len(k) - 1) ELSE k

parsePnpmLock(content) ==
  LET
    \* /^packages:\s*$/
    IsPackagesLine(line) ==
      StartsWith(line, "packages:") /\ trim(SubSeq(line, Len("packages:") + 1, Len(line))) = ""

    \* . of a regular expression: any character but a line terminator
    NoLineBreak(s) == ~Includes(s, "\n") /\ ~Includes(s, "\r")

    \* /^[^\s].*:$/
    IsTopLevelLine(line) ==
      /\ Len(line) >= 2
      /\ ~IsSpace(Char(line, 1))
      /\ Char(line, Len(line)) = ":"
      /\ NoLineBreak(SubSeq(line, 2, Len(line) - 1))

    \* /^\s{2}([^\s].*?):\s*$/ : the colon is followed by white space only, so it
    \* is the last character of the line once trimmed; "" stands for no match
    \* (a match never has an empty group)
    PnpmKeyOf(line) ==
      LET t == trimEnd(line) IN
      IF /\ Len(t) >= 4
         /\ IsSpace(Char(line, 1)) /\ IsSpace(Char(line, 2))
         /\ ~IsSpace(Char(t, 3))
         /\ Char(t, Len(t)) = ":"
         /\ NoLineBreak(SubSeq(t, 4, Len(t) - 1))
        THEN SubSeq(t, 3, Len(t) - 1)
        ELSE ""

    \* lines 375-382: the key without its peer suffix, split at the last @
    PnpmEntry(key) ==
      LET paren == IndexOf(key, "(", 1)
          core == IF paren > 0 THEN SubSeq(key, 1, paren - 1) ELSE key
          at == LastIndexOf(core, "@")
      IN  IF at <= 1 THEN [ok |-> FALSE, name |-> "", version |-> ""]
          ELSE [ok      |-> trim(SubSeq(core, at + 1, Len(core))) # "",
                name    |-> SubSeq(core, 1, at - 1),
                version |-> trim(SubSeq(core, at + 1, Len(core)))]

    \* lines 350-383, from the i-th line on
    RECURSIVE PnpmLines(_, _, _, _)
    PnpmLines(lines, i, inPackages, result) ==
      IF i > Len(lines) THEN result
      ELSE LET line == lines[i] IN
           IF ~inPackages
             THEN PnpmLines(lines, i + 1, IsPackagesLine(line), result)
           ELSE IF IsTopLevelLine(line)
             THEN PnpmLines(lines, i + 1, IsPackagesLine(line), result)
           ELSE IF PnpmKeyOf(line) = ""
             THEN PnpmLines(lines, i + 1, TRUE, result)
           ELSE LET e == PnpmEntry(PnpmUnwrap(PnpmKeyOf(line))) IN
                PnpmLines(lines, i + 1, TRUE,
                          IF e.ok THEN addVersion(result, e.name, e.version) ELSE result)
  IN
                              Returns(PnpmLines(SplitLines(content), 1, FALSE, <<>>))

InitPnpm ==
  LET
    \* pnpm lockfiles with one package key, written out from its parts
    PnpmKeys ==
      {k \in [quote : {"", "\"", "'"}, slash : BOOLEAN, name : {"test", "@s/test", ""},
              at : BOOLEAN, version : {"1.0.0", ""}, peer : {"", "(peer@2.0.0)"}] :
         ~k.at => (k.name = "test" /\ k.version = "")}

    PnpmKeyText(k) ==
      k.quote \o (IF k.slash THEN "/" ELSE "") \o k.name
              \o (IF k.at THEN "@" \o k.version ELSE "") \o k.peer \o k.quote

    PnpmLockText(k) ==
      "lockfileVersion: '6.0'\n\npackages:\n\n  " \o PnpmKeyText(k)
        \o ":\n    resolution: {integrity: sha512-test}\n    dev: false\n"
  IN
                InitApp("parsePnpmLock", {[content |-> PnpmLockText(k), key |-> k] : k \in PnpmKeys})

ApplyPnpm == Return("parsePnpmLock", parsePnpmLock(app.args.content))

SpecPnpm == InitPnpm /\ [][ApplyPnpm]_vars

\* s.replace(/:$/, '')
DropColon(s) == IF EndsWith(s, ":") THEN SubSeq(s, 1, Len(s) - 1) ELSE s

\* s.replace(/^"|"$/g, '')
DropDoubleQuotes(s) ==
  LET a == IF StartsWith(s, "\"") THEN SubSeq(s, 2, Len(s)) ELSE s
  IN  IF EndsWith(a, "\"") THEN SubSeq(a, 1, Len(a) - 1) ELSE a

\* lines 474-480; "" stands for undefined
yarnV1SpecifierToName(spec) ==
  LET at == LastIndexOf(spec, "@") IN
  IF at <= 1 THEN "" ELSE SubSeq(spec, 1, at - 1)

\* /^\s{2}version\s+"([^"]+)"/ ; "" stands for no match
YarnV1VersionOf(line) ==
  IF /\ Len(line) >= 2
     /\ IsSpace(Char(line, 1)) /\ IsSpace(Char(line, 2))
     /\ StartsWith(SubSeq(line, 3, Len(line)), "version")
    THEN LET from == 3 + Len("version")
             rest == trimStart(SubSeq(line, from, Len(line)))
             close == IndexOf(rest, "\"", 2)
         IN  IF /\ Len(rest) < Len(line) - from + 1
                /\ StartsWith(rest, "\"")
                /\ close > 2
               THEN SubSeq(rest, 2, close - 1)
               ELSE ""
    ELSE ""

parseYarnV1Lock(content) ==
  LET
    \* array.join(sep)
    RECURSIVE Join(_, _)
    Join(q, sep) ==
      IF Len(q) = 0 THEN ""
      ELSE IF Len(q) = 1 THEN q[1]
      ELSE q[1] \o sep \o Join(Tail(q), sep)

    \* lines 399-404: the last header line of the header that starts at line i
    RECURSIVE YarnV1HeaderEnd(_, _)
    YarnV1HeaderEnd(lines, i) ==
      IF i + 1 > Len(lines) \/ lines[i + 1] = "" \/ StartsWith(lines[i + 1], "  ")
        THEN i
        ELSE YarnV1HeaderEnd(lines, i + 1)

    \* lines 405-409
    YarnV1Specifiers(headerLines) ==
      LET parts == Split(Join(headerLines, "\n"), ",\n")
      IN  [k \in 1..Len(parts) |-> DropDoubleQuotes(DropColon(trim(parts[k])))]

    \* lines 412-419: the version of the body that starts at line i, and the
    \* line the body ends before
    RECURSIVE YarnV1Body(_, _, _)
    YarnV1Body(lines, i, version) ==
      IF i > Len(lines) THEN [version |-> version, next |-> i]
      ELSE LET line == lines[i] IN
           IF line = "" \/ (~StartsWith(line, " ") /\ EndsWith(trimEnd(line), ":"))
             THEN [version |-> version, next |-> i]
             ELSE YarnV1Body(lines, i + 1,
                             IF YarnV1VersionOf(line) # "" THEN YarnV1VersionOf(line) ELSE version)

    \* lines 421-424
    RECURSIVE YarnV1Add(_, _, _)
    YarnV1Add(result, specifiers, version) ==
      IF Len(specifiers) = 0 THEN result
      ELSE LET name == yarnV1SpecifierToName(Head(specifiers)) IN
           YarnV1Add(IF name # "" THEN addVersion(result, name, version) ELSE result,
                     Tail(specifiers), version)

    \* lines 391-425, from line i on: a header starts only at a line that is not
    \* indented and ends with a colon (394-395)
    RECURSIVE YarnV1Lines(_, _, _)
    YarnV1Lines(lines, i, result) ==
      IF i > Len(lines) THEN result
      ELSE LET line == lines[i] IN
           IF line = "" \/ IsSpace(Char(line, 1)) THEN YarnV1Lines(lines, i + 1, result)
           ELSE IF ~EndsWith(trimEnd(line), ":") THEN YarnV1Lines(lines, i + 1, result)
           ELSE LET last == YarnV1HeaderEnd(lines, i)
                    specifiers == YarnV1Specifiers(SubSeq(lines, i, last))
                    body == YarnV1Body(lines, last + 1, "")
                IN  YarnV1Lines(lines, body.next,
                                IF body.version = "" THEN result
                                ELSE YarnV1Add(result, specifiers, body.version))
  IN
                                Returns(YarnV1Lines(SplitLines(content), 1, <<>>))

InitYarnV1 ==
  LET
    \* yarn v1 lockfiles with one block whose header lists two specifiers, on
    \* one physical line or on two, written out from their parts
    YarnV1Specs ==
      {[name |-> "a", range |-> "^1.0.0"], [name |-> "a", range |-> "^1.1.0"],
       [name |-> "b", range |-> "^2.0.0"], [name |-> "@s/c", range |-> "npm:^1.0.0"]}

    YarnV1Blocks ==
      {b \in [first : YarnV1Specs, second : YarnV1Specs, layout : {"line", "lines"},
              quoted : BOOLEAN, version : {"1.2.0", "2.0.0"}] : b.first # b.second}

    YarnV1SpecText(spec, quoted) ==
      LET q == IF quoted THEN "\"" ELSE "" IN q \o spec.name \o "@" \o spec.range \o q

    YarnV1LockText(b) ==
      "# yarn lockfile v1\n\n"
        \o YarnV1SpecText(b.first, b.quoted)
        \o (IF b.layout = "line" THEN ", " ELSE ",\n")
        \o YarnV1SpecText(b.second, b.quoted)
        \o ":\n  version \"" \o b.version
        \o "\"\n  resolved \"https://registry.yarnpkg.com/x\"\n"
  IN
      InitApp("parseYarnV1Lock", {[content |-> YarnV1LockText(b), block |-> b] : b \in YarnV1Blocks})

ApplyYarnV1 == Return("parseYarnV1Lock", parseYarnV1Lock(app.args.content))

SpecYarnV1 == InitYarnV1 /\ [][ApplyYarnV1]_vars

\* s.replace(/^'|'$/g, '')
DropSingleQuotes(s) ==
  LET a == IF StartsWith(s, "'") THEN SubSeq(s, 2, Len(s)) ELSE s
  IN  IF EndsWith(a, "'") THEN SubSeq(a, 1, Len(a) - 1) ELSE a

\* lines 482-493; "" stands for undefined
yarnBerrySpecifierToName(spec) ==
  LET str == DropSingleQuotes(DropDoubleQuotes(spec))
      at == IF StartsWith(str, "@") THEN IndexOf(str, "@", 2) ELSE IndexOf(str, "@", 1)
  IN  IF at <= 1 THEN "" ELSE SubSeq(str, 1, at - 1)

\* /^\s{2}version:\s*(?:"([^\"]+)"|'([^']+)'|([^\s#]+))/ ; "" stands for no match
YarnBerryVersionOf(line) ==
  LET
    \* the longest prefix of s matching [^\s#]*
    RECURSIVE BareToken(_)
    BareToken(s) ==
      IF Len(s) = 0 \/ IsSpace(Char(s, 1)) \/ Char(s, 1) = "#" THEN ""
      ELSE Char(s, 1) \o BareToken(SubSeq(s, 2, Len(s)))
  IN
      IF /\ Len(line) >= 2
         /\ IsSpace(Char(line, 1)) /\ IsSpace(Char(line, 2))
         /\ StartsWith(SubSeq(line, 3, Len(line)), "version:")
        THEN LET rest == trimStart(SubSeq(line, 3 + Len("version:"), Len(line))) IN
             IF StartsWith(rest, "\"") /\ IndexOf(rest, "\"", 2) > 2
               THEN SubSeq(rest, 2, IndexOf(rest, "\"", 2) - 1)
             ELSE IF StartsWith(rest, "'") /\ IndexOf(rest, "'", 2) > 2
               THEN SubSeq(rest, 2, IndexOf(rest, "'", 2) - 1)
             ELSE BareToken(rest)
        ELSE ""

parseYarnBerryLock(content) ==
  LET
    \* lines 445-449
    YarnBerrySpecifiers(headerLine) ==
      LET parts == Split(headerLine, ",")
      IN  [k \in 1..Len(parts) |-> DropSingleQuotes(DropDoubleQuotes(DropColon(trim(parts[k]))))]

    \* lines 453-463
    RECURSIVE YarnBerryBody(_, _, _)
    YarnBerryBody(lines, i, version) ==
      IF i > Len(lines) THEN [version |-> version, next |-> i]
      ELSE LET line == lines[i] IN
           IF line = "" \/ ~StartsWith(line, " ")
             THEN [version |-> version, next |-> i]
             ELSE YarnBerryBody(lines, i + 1,
                    IF YarnBerryVersionOf(line) # "" THEN YarnBerryVersionOf(line) ELSE version)

    \* lines 466-469
    RECURSIVE YarnBerryAdd(_, _, _)
    YarnBerryAdd(result, specifiers, version) ==
      IF Len(specifiers) = 0 THEN result
      ELSE LET name == yarnBerrySpecifierToName(Head(specifiers)) IN
           YarnBerryAdd(IF name # "" THEN addVersion(result, name, version) ELSE result,
                        Tail(specifiers), version)

    \* lines 433-470, from line i on
    RECURSIVE YarnBerryLines(_, _, _)
    YarnBerryLines(lines, i, result) ==
      IF i > Len(lines) THEN result
      ELSE LET line == lines[i] IN
           IF line = "" \/ StartsWith(trimStart(line), "#")
             THEN YarnBerryLines(lines, i + 1, result)
           ELSE IF ~StartsWith(line, "\"") /\ ~StartsWith(line, "'")
             THEN YarnBerryLines(lines, i + 1, result)
           ELSE IF ~EndsWith(trimEnd(line), ":")
             THEN YarnBerryLines(lines, i + 1, result)
           ELSE LET body == YarnBerryBody(lines, i + 1, "") IN
                YarnBerryLines(lines, body.next,
                               IF body.version = "" THEN result
                               ELSE YarnBerryAdd(result, YarnBerrySpecifiers(trim(line)),
                                                 body.version))
  IN
                                   Returns(YarnBerryLines(SplitLines(content), 1, <<>>))

\* lines 306-314
parseLockfile(lockfilePath, content) ==
  IF EndsWith(lockfilePath, "package-lock.json") THEN parseNpmLock(content)
  ELSE IF EndsWith(lockfilePath, "pnpm-lock.yaml") THEN parsePnpmLock(content)
  ELSE IF EndsWith(lockfilePath, "yarn.lock")
    THEN IF Includes(content, "yarn lockfile v1") THEN parseYarnV1Lock(content)
         ELSE parseYarnBerryLock(content)
  ELSE Returns(<<>>)

\* JSON texts that are malformed, or well-formed with an unexpected shape
OddJsonTexts ==
  {"invalid json {", "", "null", "5", "\"text\"", "true", "[1, 2]", "[]", "{}",
   "{\"lockfileVersion\": 3}",
   "{\"packages\": null}", "{\"packages\": 5}", "{\"packages\": \"ab\"}",
   "{\"packages\": true}", "{\"packages\": [null, 7]}",
   "{\"packages\": {\"node_modules/a\": null, \"node_modules/b\": 5}}"}

InitParse ==
  LET
    \* lockfile paths: the three supported names, in a directory or not, and others
    LockfilePaths ==
      {"package-lock.json", "app/package-lock.json", "pnpm-lock.yaml", "yarn.lock",
       "bun.lock", "Cargo.lock", ""}

    \* texts in each of the formats parsed
    LockfileTexts ==
      {"{\"packages\": {\"\": {\"name\": \"root\", \"version\": \"1.0.0\"}, \"node_modules/a\": {\"version\": \"1.0.0\"}}}",
       "packages:\n\n  /a@1.0.0:\n    dev: false\n",
       "# yarn lockfile v1\n\na@^1.0.0:\n  version \"1.0.0\"\n",
       "__metadata:\n  version: 8\n\n\"a@npm:^1.0.0\":\n  version: 1.0.0\n"}
  IN
                 InitApp("parseLockfile", LockfilePaths \X (OddJsonTexts \cup LockfileTexts))

ApplyParse == Return("parseLockfile", parseLockfile(app.args[1], app.args[2]))

SpecParse == InitParse /\ [][ApplyParse]_vars

-----------------------------------------------------------------------------
(* findLockfileLine (src/unnamed/part_000) and the line run annotates;      *)
(* line 0 stands for undefined                                              *)

\* lines 823-827, for the 1-based position at of a match
countLinesBefore(content, at) ==
  1 + Cardinality({i \in 1..(at - 1) : i <= Len(content) /\ Char(content, i) = "\n"})

\* lines 829-839
findLineInNpmLock(content, name) ==
  LET
    \* s.indexOf(sub), 1-based, 0 when absent
    FirstIndexOf(s, sub) ==
      LET hits == {i \in 1..(Len(s) - Len(sub) + 1) : SubSeq(s, i, i + Len(sub) - 1) = sub}
      IN  IF hits = {} THEN 0 ELSE CHOOSE i \in hits : \A j \in hits : i <= j
  IN
      LET idx == FirstIndexOf(content, "\"node_modules/" \o name \o "\"")
          j == FirstIndexOf(content, "\"name\": \"" \o name \o "\"")
      IN  IF idx > 0 THEN countLinesBefore(content, idx)
          ELSE IF j > 0 THEN countLinesBefore(content, j)
          ELSE 0

\* lines 841-856
findLineInPnpmLock(content, name, version) ==
  LET
    \* the least index of a set of line indices, or 0
    FirstLine(hits) ==
      IF hits = {} THEN 0 ELSE CHOOSE i \in hits : \A j \in hits : i <= j
  IN
      LET lines == SplitLines(content)
          needle == "/" \o name \o "@" \o version
          exact == {i \in 1..Len(lines) :
                      /\ lines[i] # ""
                      /\ Includes(lines[i], needle)
                      /\ EndsWith(trimEnd(lines[i]), ":")}
          prefix == {i \in 1..Len(lines) :
                       lines[i] # "" /\ StartsWith(trimStart(lines[i]), needle)}
      IN  IF exact # {} THEN FirstLine(exact) ELSE FirstLine(prefix)

\* the outer loop of both yarn finders, yarn v1 ("v1") or Yarn Berry
\* ("berry"), from line i on
RECURSIVE YarnFind(_, _, _, _, _)
YarnFind(format, lines, i, name, version) ==
  LET
    \* the version a block line gives
    YarnVersionOf(line) ==
      IF format = "v1" THEN YarnV1VersionOf(line) ELSE YarnBerryVersionOf(line)

    \* lines 862 and 883: lines that cannot be a header are passed over
    YarnHeader(line) ==
      /\ line # ""
      /\ ~StartsWith(line, " ")
      /\ format = "berry" => ~StartsWith(trimStart(line), "#")

    \* lines 867-874 and 888-896: the line of the block after the header that
    \* gives the version, or 0; the block ends at the first line that is
    \* neither indented nor empty
    RECURSIVE BlockVersionLine(_)
    BlockVersionLine(j) ==
      IF j > Len(lines) \/ ~(StartsWith(lines[j], " ") \/ lines[j] = "") THEN 0
      ELSE IF YarnVersionOf(lines[j]) # "" /\ YarnVersionOf(lines[j]) = version
        THEN j
      ELSE BlockVersionLine(j + 1)
  IN
    IF i > Len(lines) THEN 0
    ELSE IF /\ YarnHeader(lines[i])
            /\ EndsWith(trimEnd(lines[i]), ":")
            /\ Includes(lines[i], name \o "@")
            /\ BlockVersionLine(i + 1) > 0
      THEN BlockVersionLine(i + 1)
    ELSE YarnFind(format, lines, i + 1, name, version)

\* lines 858-877
findLineInYarnV1Lock(content, name, version) ==
  YarnFind("v1", SplitLines(content), 1, name, version)

\* lines 879-899
findLineInYarnBerryLock(content, name, version) ==
  YarnFind("berry", SplitLines(content), 1, name, version)

\* lines 813-821
findLockfileLine(lockfilePath, content, name, version) ==
  IF EndsWith(lockfilePath, "package-lock.json") THEN findLineInNpmLock(content, name)
  ELSE IF EndsWith(lockfilePath, "pnpm-lock.yaml")
    THEN findLineInPnpmLock(content, name, version)
  ELSE IF EndsWith(lockfilePath, "yarn.lock")
    THEN IF Includes(content, "yarn lockfile v1")
           THEN findLineInYarnV1Lock(content, name, version)
           ELSE findLineInYarnBerryLock(content, name, version)
  ELSE 0

\* mutant: the annotation is placed on the line found, whatever it is
AnnotationLineAsFound(line) == line

\* run, src/lib/git.ts 176-178 and 187-189: the line the annotation is put on
AnnotationLine(line) == IF line # 0 THEN line ELSE 1

InitFind ==
  LET
    FindPaths == {"package-lock.json", "pnpm-lock.yaml", "yarn.lock", "bun.lock"}

    FindTexts ==
      {"{\n  \"packages\": {\n    \"node_modules/a\": {\n      \"version\": \"1.0.0\"\n    }\n  }\n}",
       "{\"dependencies\": [\n{\"name\": \"b\", \"version\": \"2.0.0\"}]}",
       "packages:\n\n  /a@1.0.0:\n    dev: false\n\n  /b@2.0.0(a@1.0.0):\n    dev: false",
       "# yarn lockfile v1\n\na@^1.0.0:\n  version \"1.0.0\"\n\nb@^2.0.0:\n  resolved \"x\"\n  version \"2.0.0\"\n",
       "__metadata:\n  version: 8\n\n\"a@npm:^1.0.0\":\n  version: 1.0.0\n\n\"b@npm:^2.0.0\":\n  version: \"2.0.0\"",
       "", "\n"}

    FindNames == {"a", "b", "c"}

    FindVersions == {"1.0.0", "2.0.0"}
  IN
                InitApp("findLockfileLine", FindPaths \X FindTexts \X FindNames \X FindVersions)

\* run, src/lib/git.ts 170 and 176-178: the line is looked up, then annotated
ApplyFind ==
  LET line == findLockfileLine(app.args[1], app.args[2], app.args[3], app.args[4])
  IN  Return("findLockfileLine", [line |-> line, annotated |-> AnnotationLine(line)])

SpecFind == InitFind /\ [][ApplyFind]_vars

-----------------------------------------------------------------------------
(* Vocabulary of the claims about run *)

Previous(name) == Get(previousDeps, name)

Current(name) == Get(currentDeps, name)

\* the versions a change newly introduces
NewVersions(name) ==
  IF Len(Previous(name)) = 0 \/ Len(Current(name)) = 0 THEN {}
  ELSE Elems(Current(name)) \ Elems(Previous(name))

\* the value the lookup fn returned to run for name@version, once it has
Known(fn, name, version) == Key(name, version) \in DOMAIN history[fn]

Value(fn, name, version) == history[fn][Key(name, version)]

HadProvenance(name, version) ==
  Known("prov", name, version) /\ Value("prov", name, version)

HadTrustedPublisher(name, version) ==
  Known("tp", name, version) /\ Value("tp", name, version)

HadDetails(name, version) ==
  Known("det", name, version) /\ Value("det", name, version).has

\* index of the first version of prev that satisfies Had
FirstIndex(name, prev, Had(_, _)) ==
  CHOOSE i \in 1..Len(prev) :
    Had(name, prev[i]) /\ \A j \in 1..(i - 1) : ~Had(name, prev[j])

EventsOf(name, to, type) ==
  {i \in 1..Len(events) :
     events[i].name = name /\ events[i].to = to /\ events[i].downgradeType = type}

WarningsOf(name, to) ==
  {i \in 1..Len(warnings) : warnings[i].name = name /\ warnings[i].to = to}

\* (C1) Provenance downgrade: when run has finished, each newly introduced
\* version without provenance has exactly one provenance event if some
\* previous version had provenance, its `from` being the first such version
\* in iteration order, and has no provenance event otherwise.
C1_ProvenanceDowngrade ==
  pc = "done" =>
    \A name \in Names : \A v \in NewVersions(name) :
      (Known("prov", name, v) /\ ~Value("prov", name, v)) =>
        IF \E i \in 1..Len(Previous(name)) : HadProvenance(name, Previous(name)[i])
          THEN /\ Cardinality(EventsOf(name, v, "provenance")) = 1
               /\ \A e \in EventsOf(name, v, "provenance") :
                    events[e].from =
                      Previous(name)[FirstIndex(name, Previous(name), HadProvenance)]
          ELSE EventsOf(name, v, "provenance") = {}

\* the second of two previous versions is the first one with provenance
C1_Witness ==
  /\ pc = "done"
  /\ \E name \in Names : \E v \in NewVersions(name) :
       /\ Len(Previous(name)) = 2
       /\ Known("prov", name, v) /\ ~Value("prov", name, v)
       /\ Known("prov", name, Previous(name)[1])
       /\ ~HadProvenance(name, Previous(name)[1])
       /\ HadProvenance(name, Previous(name)[2])
       /\ \E e \in EventsOf(name, v, "provenance") : events[e].from = Previous(name)[2]

\* (C2) Trusted-publisher downgrade: when run has finished, each newly
\* introduced version without trusted-publisher status has exactly one
\* trusted_publisher event if some previous version had the status, with
\* `from` the first such version and keptProvenance the value hasProvenance
\* returned for the new version; a new version with the status has none.
C2_TrustedPublisherDowngrade ==
  pc = "done" =>
    \A name \in Names : \A v \in NewVersions(name) :
      Known("tp", name, v) =>
        IF Value("tp", name, v) THEN EventsOf(name, v, "trusted_publisher") = {}
        ELSE IF \E i \in 1..Len(Previous(name)) :
                  HadTrustedPublisher(name, Previous(name)[i])
          THEN /\ Cardinality(EventsOf(name, v, "trusted_publisher")) = 1
               /\ \A e \in EventsOf(name, v, "trusted_publisher") :
                    /\ events[e].from =
                         Previous(name)[FirstIndex(name, Previous(name), HadTrustedPublisher)]
                    /\ Known("prov", name, v)
                    /\ events[e].keptProvenance = Value("prov", name, v)
          ELSE EventsOf(name, v, "trusted_publisher") = {}

\* trusted publisher lost, provenance kept, found at the second previous version
C2_Witness ==
  /\ pc = "done"
  /\ \E e \in 1..Len(events) :
       /\ events[e].downgradeType = "trusted_publisher"
       /\ events[e].keptProvenance
       /\ Len(Previous(events[e].name)) = 2
       /\ events[e].from = Previous(events[e].name)[2]

\* (C3) For each (package, newly introduced version) the result lists hold
\* at most one trusted_publisher event, at most one provenance event and at
\* most one change warning.
C3_AtMostOnePerNewVersion ==
  \A name \in Names : \A v \in Versions :
    /\ Cardinality(EventsOf(name, v, "trusted_publisher")) <= 1
    /\ Cardinality(EventsOf(name, v, "provenance")) <= 1
    /\ Cardinality(WarningsOf(name, v)) <= 1

\* both events for one new version; both previous versions were examined
C3_Witness ==
  /\ pc = "done"
  /\ \E name \in Names : \E v \in NewVersions(name) :
       /\ Len(Previous(name)) = 2
       /\ EventsOf(name, v, "trusted_publisher") # {}
       /\ EventsOf(name, v, "provenance") # {}
       /\ Known("tp", name, Previous(name)[2])
       /\ Known("prov", name, Previous(name)[2])

FromTo(r) ==
  /\ r.to \in NewVersions(r.name)
  /\ r.from \in Elems(Previous(r.name))
  /\ r.from # r.to

\* (C4) Every event and warning has `to` among the newly introduced versions
\* and `from` among the previous versions of its package; a package whose
\* previous or current set is empty causes no request, event or warning.
C4_FromAndTo ==
  /\ \A i \in 1..Len(events) : FromTo(events[i])
  /\ \A i \in 1..Len(warnings) : FromTo(warnings[i])
  /\ \A name \in Names :
       (Len(Previous(name)) = 0 \/ Len(Current(name)) = 0) =>
         /\ \A r \in requests : r.name # name
         /\ \A i \in 1..Len(events) : events[i].name # name
         /\ \A i \in 1..Len(warnings) : warnings[i].name # name

\* an event for one package while another package was added or removed
C4_Witness ==
  /\ pc = "done"
  /\ Len(events) > 0
  /\ \E name \in Names :
       /\ Len(Previous(name)) + Len(Current(name)) > 0
       /\ (Len(Previous(name)) = 0 \/ Len(Current(name)) = 0)
       /\ \E i \in 1..Len(changed) : changed[i].name = name

Differs(x, y) == Truthy(x) /\ Truthy(y) /\ x # y

\* the details returned for two versions of a package call for a warning
DetailsDiffer(name, from, to) ==
  /\ HadDetails(name, from)
  /\ Known("det", name, to)
  /\ \/ Differs(Value("det", name, from).repository, Value("det", name, to).repository)
     \/ Differs(Value("det", name, from).branch, Value("det", name, to).branch)

\* (C5, as stated) A warning names the first previous version whose
\* provenance details have has = true, and no later previous version is
\* examined.
C5_FirstPreviousWithDetails ==
  \A i \in 1..Len(warnings) :
    LET name == warnings[i].name
        prev == Previous(name)
        first == FirstIndex(name, prev, HadDetails)
    IN  /\ warnings[i].from = prev[first]
        /\ \A j \in (first + 1)..Len(prev) : ~Known("det", name, prev[j])

\* (C5, amended) When run has finished, a newly introduced version with
\* provenance has been compared with the previous versions in iteration
\* order up to the first one whose details differ from its own (repositories
\* first, otherwise branches): exactly one warning names that version, every
\* version before it was examined, and (the package having one new version)
\* none after it; if no previous version differs there is no warning.
C5_FirstDifferingPrevious ==
  pc = "done" =>
    \A name \in Names : \A v \in NewVersions(name) :
      HadProvenance(name, v) =>
        LET prev == Previous(name) IN
        IF \E i \in 1..Len(prev) : DetailsDiffer(name, prev[i], v)
          THEN LET DiffersFromNew(n, from) == DetailsDiffer(n, from, v)
                   first == FirstIndex(name, prev, DiffersFromNew)
               IN
               /\ Cardinality(WarningsOf(name, v)) = 1
               /\ \A w \in WarningsOf(name, v) :
                    /\ warnings[w].from = prev[first]
                    /\ warnings[w].type =
                         IF Differs(Value("det", name, prev[first]).repository,
                                    Value("det", name, v).repository)
                           THEN "repo_changed" ELSE "branch_changed"
               /\ \A j \in 1..first : Known("det", name, prev[j])
               /\ Cardinality(NewVersions(name)) = 1 =>
                    \A j \in (first + 1)..Len(prev) : ~Known("det", name, prev[j])
          ELSE /\ WarningsOf(name, v) = {}
               /\ \A j \in 1..Len(prev) : Known("det", name, prev[j])

\* the first previous version with details agrees with the new version, the
\* second one differs and is the one the warning names
C5_Witness ==
  /\ pc = "done"
  /\ \E i \in 1..Len(warnings) :
       LET name == warnings[i].name
           prev == Previous(name)
       IN  /\ Len(prev) = 2
           /\ HadDetails(name, prev[1])
           /\ warnings[i].from = prev[2]

\* (C6) A warning is emitted only for a new version with provenance and a
\* previous version whose details have has = true; repo_changed needs two
\* non-empty different repositories; branch_changed needs two non-empty
\* different branches and repositories that did not trigger repo_changed.
\* A new version without provenance has no warning.
C6_WarningRequires ==
  /\ \A i \in 1..Len(warnings) :
       LET w == warnings[i]
           pd == Value("det", w.name, w.from)
           nd == Value("det", w.name, w.to)
       IN  /\ HadProvenance(w.name, w.to)
           /\ HadDetails(w.name, w.from)
           /\ Known("det", w.name, w.to)
           /\ w.type \in {"repo_changed", "branch_changed"}
           /\ w.type = "repo_changed" =>
                /\ Differs(pd.repository, nd.repository)
                /\ w.prevRepo = pd.repository /\ w.newRepo = nd.repository
           /\ w.type = "branch_changed" =>
                /\ Differs(pd.branch, nd.branch)
                /\ ~Differs(pd.repository, nd.repository)
                /\ w.prevBranch = pd.branch /\ w.newBranch = nd.branch
  /\ \A name \in Names : \A v \in Versions :
       (Known("prov", name, v) /\ ~Value("prov", name, v)) => WarningsOf(name, v) = {}

\* same repository on both sides, branch changed
C6_Witness ==
  /\ pc = "done"
  /\ \E i \in 1..Len(warnings) :
       /\ warnings[i].type = "branch_changed"
       /\ Truthy(Value("det", warnings[i].name, warnings[i].from).repository)
       /\ Truthy(Value("det", warnings[i].name, warnings[i].to).repository)

\* the fail-on-downgrade input has value v (compared without regard to case)
FailOnDowngradeIs(v) ==
  /\ inputs.failOnDowngrade \notin {None, ""}
  /\ toLowerCase(inputs.failOnDowngrade) = v

FailOnDowngradeUnset == inputs.failOnDowngrade \in {None, ""}

FailOnProvChangeIs(v) ==
  /\ inputs.failOnProvChange \notin {None, ""}
  /\ toLowerCase(inputs.failOnProvChange) = v

NoException == ~(env.lockfile /\ ~env.head)

\* (C7) When run has finished without exception, the exit code is 1 exactly
\* when fail-on-downgrade is true, any or unset and there is an event, or it
\* is only-provenance-loss and there is a provenance event, or
\* fail-on-provenance-change is true and there is a warning.
C7_FailurePolicy ==
  (pc = "done" /\ NoException) =>
    (exitCode = 1 <=>
       \/ /\ FailOnDowngradeIs("true") \/ FailOnDowngradeIs("any") \/ FailOnDowngradeUnset
          /\ Len(events) > 0
       \/ /\ FailOnDowngradeIs("only-provenance-loss")
          /\ \E i \in 1..Len(events) : events[i].downgradeType = "provenance"
       \/ /\ FailOnProvChangeIs("true")
          /\ Len(warnings) > 0)

\* only-provenance-loss with a trusted_publisher event alone does not fail
C7_Witness ==
  /\ pc = "done"
  /\ FailOnDowngradeIs("only-provenance-loss")
  /\ Len(events) > 0
  /\ \A i \in 1..Len(events) : events[i].downgradeType = "trusted_publisher"
  /\ exitCode = 0

-----------------------------------------------------------------------------
(* Claims about the lookups, for a caller issuing them one after another *)

\* (C8) Memoization: a call for a key some earlier call has returned a value
\* for settles at once with that value and receives no response, whatever
\* the registry would answer; likewise for each of the three lookups.
C8_Memoized ==
  \A fn \in Slots :
    (calls[fn].st # "idle" /\ Known(fn, calls[fn].name, calls[fn].version)) =>
      /\ calls[fn].st = "done"
      /\ calls[fn].log = <<>>
      /\ Returned(fn, calls[fn]) = Value(fn, calls[fn].name, calls[fn].version)

\* a repeated hasProvenance call answered true from the cache
C8_Witness ==
  /\ calls["prov"].st = "done"
  /\ calls["prov"].log = <<>>
  /\ calls["prov"].ret
  /\ Known("prov", calls["prov"].name, calls["prov"].version)

\* (C9) hasProvenance: a 404 from an attestation endpoint is the last
\* response of the call, which has returned false and cached false.
C9_NotFoundIsFinal ==
  LET c == calls["prov"] IN
  \A i \in 1..Len(c.log) :
    (c.log[i].ep \in {"ep1", "ep2"} /\ c.log[i].status = "404") =>
      /\ i = Len(c.log)
      /\ c.st = "done"
      /\ ~c.ret
      /\ Key(c.name, c.version) \in DOMAIN provenanceCache
      /\ ~provenanceCache[Key(c.name, c.version)]

\* other error on the first endpoint, then 404 on the second
C9_Witness ==
  /\ calls["prov"].st = "done"
  /\ Len(calls["prov"].log) = 2
  /\ calls["prov"].log[1].status = "err"
  /\ calls["prov"].log[2].ep = "ep2"
  /\ calls["prov"].log[2].status = "404"

ZeroCountEndsCall ==
  LET c == calls["prov"] IN
  \A i \in 1..Len(c.log) :
    (c.log[i].ep \in {"ep1", "ep2"} /\ c.log[i].status = "ok" /\ c.log[i].count = 0) =>
      /\ i = Len(c.log)
      /\ c.st = "done"
      /\ ~c.ret
      /\ Key(c.name, c.version) \in DOMAIN provenanceCache
      /\ ~provenanceCache[Key(c.name, c.version)]

CachedFalseStays ==
  \A k \in DOMAIN provenanceCache :
    ~provenanceCache[k] => (k \in DOMAIN provenanceCache' /\ ~provenanceCache'[k])

CachedFalseAnswers ==
  LET c == calls'["prov"] IN
  (/\ calls["prov"].st = "idle"
   /\ c.st # "idle"
   /\ Key(c.name, c.version) \in DOMAIN provenanceCache
   /\ ~provenanceCache[Key(c.name, c.version)])
    => (c.st = "done" /\ ~c.ret /\ c.log = <<>>)

\* (C10) hasProvenance: a successful response with a zero attestation count
\* is the last response of the call, which has returned false and cached
\* false; a cached false is never replaced, and every later call for the key
\* returns false without a request.
C10_ZeroCountIsFinal ==
  /\ []ZeroCountEndsCall
  /\ [][CachedFalseStays]_vars
  /\ [][CachedFalseAnswers]_vars

\* zero count on the first endpoint: one response, false
C10_Witness ==
  /\ calls["prov"].st = "done"
  /\ calls["prov"].log = <<[ep |-> "ep1", status |-> "ok", count |-> 0]>>
  /\ ~calls["prov"].ret

\* the endpoints in the order of attestUrls (provenance.ts 13-16), then the
\* package metadata: "ep1" is /-/npm/v1/attestations, "ep2" /-/v1/attestations
EndpointOrder == <<"ep1", "ep2", "meta">>

\* (C11) hasProvenance asks the two attestation endpoints in fixed order; a
\* success with a positive count on either is the last response of the call,
\* which has returned true and cached true; an error other than 404 on the
\* first endpoint is followed by the request to the second endpoint.
C11_EndpointsInOrder ==
  LET c == calls["prov"]
      key == Key(c.name, c.version)
  IN
  /\ Len(c.log) <= Len(EndpointOrder)
  /\ \A i \in 1..Len(c.log) : c.log[i].ep = EndpointOrder[i]
  /\ \A i \in 1..Len(c.log) :
       (/\ c.log[i].ep \in {"ep1", "ep2"}
        /\ c.log[i].status = "ok"
        /\ c.log[i].count > 0) =>
         /\ i = Len(c.log)
         /\ c.st = "done"
         /\ c.ret
         /\ key \in DOMAIN provenanceCache
         /\ provenanceCache[key]
  /\ (Len(c.log) >= 1 /\ c.log[1].status = "err") =>
       \/ Len(c.log) = 1 /\ c.st = "ep2"
       \/ Len(c.log) >= 2 /\ c.log[2].ep = "ep2"

\* an error on the first endpoint, then a positive count on the second
C11_Witness ==
  /\ calls["prov"].st = "done"
  /\ calls["prov"].ret
  /\ calls["prov"].log = <<[ep |-> "ep1", status |-> "err", count |-> 0],
                           [ep |-> "ep2", status |-> "ok", count |-> 1]>>

\* (C12) hasProvenance asks the package metadata exactly when both
\* attestation endpoints failed with errors other than 404; the metadata
\* response is the last of the call, whose result is then cached and is true
\* exactly when the request succeeded and the version record has a truthy
\* provenance, a truthy dist.provenance or a dist.attestations object/array.
C12_MetadataFallback ==
  LET c == calls["prov"]
      key == Key(c.name, c.version)
      asked == c.st = "meta" \/ \E i \in 1..Len(c.log) : c.log[i].ep = "meta"
  IN
  /\ asked <=> /\ Len(c.log) >= 2
               /\ c.log[1].ep = "ep1" /\ c.log[1].status = "err"
               /\ c.log[2].ep = "ep2" /\ c.log[2].status = "err"
  /\ \A i \in 1..Len(c.log) :
       c.log[i].ep = "meta" =>
         /\ i = Len(c.log)
         /\ c.st = "done"
         /\ key \in DOMAIN provenanceCache
         /\ provenanceCache[key] = c.ret
         /\ c.ret <=> /\ c.log[i].status = "ok"
                      /\ c.ver.hasVersion
                      /\ \/ c.ver.provenance
                         \/ c.ver.distProvenance
                         \/ c.ver.distKind \in {"object", "array"}

\* both endpoints failed, the metadata carries only a dist.attestations object
C12_Witness ==
  /\ calls["prov"].st = "done"
  /\ Len(calls["prov"].log) = 3
  /\ calls["prov"].log[3].status = "ok"
  /\ calls["prov"].ret
  /\ ~calls["prov"].ver.provenance
  /\ ~calls["prov"].ver.distProvenance
  /\ calls["prov"].ver.distKind = "object"

\* the cache a lookup is given by run
CacheOf(fn) ==
  IF fn = "prov" THEN provenanceCache
  ELSE IF fn = "det" THEN provenanceDetailsCache
  ELSE trustedPublisherCache

\* what a lookup returns without a conclusive signal
Inconclusive(fn) == IF fn = "det" THEN EmptyDetails ELSE FALSE

\* (C13) Each of the three lookups settles with a value whatever its requests
\* did: a settled call finds exactly the value it returned in its cache under
\* name@version, and a call none of whose requests succeeded has returned
\* false, or {has: false} for getProvenanceDetails.
C13_NeverRejects ==
  \A fn \in Slots :
    LET c == calls[fn]
        key == Key(c.name, c.version)
    IN
    /\ c.st \in {"idle", "ep1", "ep2", "meta", "done"}
    /\ c.st = "done" =>
         /\ key \in DOMAIN CacheOf(fn)
         /\ CacheOf(fn)[key] = Returned(fn, c)
    /\ (c.st = "done" /\ c.log # <<>> /\ \A i \in 1..Len(c.log) : c.log[i].status # "ok") =>
         Returned(fn, c) = Inconclusive(fn)

\* getProvenanceDetails after three failed requests
C13_Witness ==
  /\ calls["det"].st = "done"
  /\ Len(calls["det"].log) = 3
  /\ \A i \in 1..3 : calls["det"].log[i].status = "err"
  /\ calls["det"].details = EmptyDetails
  /\ provenanceDetailsCache[Key(calls["det"].name, calls["det"].version)] = EmptyDetails

\* (C14) getProvenanceDetails: a 404 from an attestation endpoint is the last
\* response of the call, which has cached and returned {has: false} with no
\* repository, ref or branch, the metadata not being asked; when both
\* endpoints fail with other errors the metadata is asked next.
C14_DetailsNotFound ==
  LET c == calls["det"]
      key == Key(c.name, c.version)
  IN
  /\ \A i \in 1..Len(c.log) :
       (c.log[i].ep \in {"ep1", "ep2"} /\ c.log[i].status = "404") =>
         /\ i = Len(c.log)
         /\ c.st = "done"
         /\ c.details = [has |-> FALSE, repository |-> None, ref |-> None, branch |-> None]
         /\ key \in DOMAIN provenanceDetailsCache
         /\ provenanceDetailsCache[key] = c.details
  /\ (/\ Len(c.log) >= 2
      /\ c.log[1].status = "err"
      /\ c.log[2].status = "err") =>
       \/ Len(c.log) = 2 /\ c.st = "meta"
       \/ Len(c.log) = 3 /\ c.log[3].ep = "meta"

\* an empty list on the first endpoint, then 404 on the second
C14_Witness ==
  /\ calls["det"].st = "done"
  /\ calls["det"].log = <<[ep |-> "ep1", status |-> "ok", count |-> 0],
                          [ep |-> "ep2", status |-> "404", count |-> 0]>>
  /\ ~calls["det"].details.has

\* (C15) hasTrustedPublisher makes one metadata request; its result is
\* cached and is true exactly when the request succeeded and the version's
\* _npmUser has a truthy trustedPublisher, or the name "GitHub Actions"
\* together with the email npm-oidc-no-reply@github.com.
C15_TrustedPublisher ==
  LET c == calls["tp"]
      key == Key(c.name, c.version)
  IN
  /\ Len(c.log) <= 1
  /\ c.log # <<>> =>
       /\ c.log[1].ep = "meta"
       /\ c.st = "done"
       /\ key \in DOMAIN trustedPublisherCache
       /\ trustedPublisherCache[key] = c.ret
       /\ c.ret <=> /\ c.log[1].status = "ok"
                    /\ c.ver.hasVersion
                    /\ c.ver.npmUser.present
                    /\ \/ c.ver.npmUser.trustedPublisher
                       \/ /\ c.ver.npmUser.name = "GitHub Actions"
                          /\ c.ver.npmUser.email = "npm-oidc-no-reply@github.com"

\* no trustedPublisher marker, recognised by name and email
C15_Witness ==
  /\ calls["tp"].st = "done"
  /\ Len(calls["tp"].log) = 1
  /\ calls["tp"].ret
  /\ ~calls["tp"].ver.npmUser.trustedPublisher
  /\ calls["tp"].ver.npmUser.name = "GitHub Actions"

-----------------------------------------------------------------------------
(* Claims about the helper functions *)

\* the versions a mapping records for a name, as a set; empty when absent
VersionSet(map, name) == Elems(Get(map, name))

Applied(fn) == app.fn = fn /\ app.done

DiffIsExact ==
  Applied("diffDependencySets") =>
    LET prev == app.args[1]
        curr == app.args[2]
        out  == app.out
    IN
    /\ \A n \in DiffNamesUniverse :
         Cardinality({i \in 1..Len(out) : out[i].name = n})
           = IF VersionSet(prev, n) # VersionSet(curr, n) THEN 1 ELSE 0
    /\ \A i \in 1..Len(out) :
         /\ out[i].name \in Elems(Keys(prev)) \cup Elems(Keys(curr))
         /\ Elems(out[i].previous) = VersionSet(prev, out[i].name)
         /\ Elems(out[i].current) = VersionSet(curr, out[i].name)
         /\ (out[i].name \notin Elems(Keys(curr))) =>
              (out[i].current = <<>> /\ out[i].previous # <<>>)
    /\ (prev = curr) => out = <<>>

\* (C16) diffDependencySets returns exactly one change for each name of either
\* mapping whose version sets differ as sets (absent = empty) and none for a
\* name whose sets are equal whatever their insertion order; a name only in
\* prev gives current empty and previous populated; equal mappings give no
\* change; the arguments are left as they were.
C16_DiffDependencySets ==
  /\ []DiffIsExact
  /\ [][app'.args = app.args]_vars

\* "a" has the same versions in another order, "b" was removed
C16_Witness ==
  /\ Applied("diffDependencySets")
  /\ Get(app.args[1], "a") = <<"1", "2">>
  /\ Get(app.args[2], "a") = <<"2", "1">>
  /\ app.out = <<[name |-> "b", previous |-> <<"1">>, current |-> <<>>]>>

\* (C18) parsePnpmLock: an unquoted key loses its leading slash, a quoted key
\* keeps it in the recorded name; either way the peer suffix is dropped, the
\* key is split at its last @, and a key with no @, with nothing before the
\* @, or with an empty version is skipped.
C18_PnpmQuotedKeys ==
  Applied("parsePnpmLock") =>
    LET k == app.args.key
        name == IF k.quote # "" /\ k.slash THEN "/" \o k.name ELSE k.name
    IN
    /\ ~app.out.threw
    /\ app.out.map = IF ~k.at \/ name = "" \/ k.version = ""
                       THEN <<>>
                       ELSE <<[name |-> name, versions |-> <<k.version>>]>>

\* a single-quoted key with a slash and a peer suffix
C18_Witness ==
  /\ Applied("parsePnpmLock")
  /\ app.args.key.quote = "'"
  /\ app.args.key.slash
  /\ app.args.key.peer # ""
  /\ app.out.map = <<[name |-> "/test", versions |-> <<"1.0.0">>]>>

\* (C19) parseYarnV1Lock: every specifier of a header that lists several,
\* on one physical line or over several lines, is mapped to the version of
\* the block, under the name before the specifier's last @.
C19_YarnV1EverySpecifier ==
  Applied("parseYarnV1Lock") =>
    LET b == app.args.block IN
    /\ ~app.out.threw
    /\ b.version \in VersionSet(app.out.map, b.first.name)
    /\ b.version \in VersionSet(app.out.map, b.second.name)

SupportedPath(path) ==
  \/ EndsWith(path, "package-lock.json")
  \/ EndsWith(path, "pnpm-lock.yaml")
  \/ EndsWith(path, "yarn.lock")

\* (C17) parseLockfile never throws: for every path and content it returns a
\* mapping, which is empty for malformed JSON, for well-formed JSON of an
\* unexpected shape, and for an unsupported file name.
C17_ParseNeverThrows ==
  Applied("parseLockfile") =>
    /\ ~app.out.threw
    /\ ~SupportedPath(app.args[1]) => app.out.map = <<>>
    /\ app.args[2] \in OddJsonTexts => app.out.map = <<>>

-----------------------------------------------------------------------------
(* Claims about the snapshots, the report and the exit code of run *)

\* (C21) A missing or unreadable lockfile snapshot, base or head, is nothing
\* to compare: the run ends with no events, no warnings and no failing exit
\* code.
C21_SnapshotMissingIsQuiet ==
  (pc = "done" /\ env.lockfile /\ (~env.head \/ ~env.base)) =>
    /\ events = <<>>
    /\ warnings = <<>>
    /\ exitCode = 0

-----------------------------------------------------------------------------
(* Claims about the attestation payloads *)

\* repository information that names a GitHub repository, by the place it
\* is read from
GitHubRepository(r) ==
  r \in {"owner/repo", "https://github.com/owner/repo.git",
         "https://enterprise.github.com/owner/repo"}

GitHubUri(u) ==
  u \in {"git+https://github.com/me/proj@refs/heads/feat", "https://github.com/acme/pkg.git"}

\* (C22, as stated) extractRepoAndRef yields no repository when none of the
\* three places names a GitHub repository: a non-GitHub host or an
\* unparseable text gives nothing, in workflow.repository as in the two uris.
C22_NonGitHubYieldsNone ==
  Applied("extractRepoAndRef") =>
    LET att == app.args IN
    (/\ ~GitHubRepository(att.repository)
     /\ ~GitHubUri(att.uri)
     /\ \A i \in 1..Len(att.deps) : ~GitHubUri(att.deps[i]))
      => app.out.repository = None

\* (C22, amended) A non-GitHub or unparseable uri (configSource.uri,
\* resolvedDependencies[].uri) yields no repository; a workflow.repository
\* that is not a GitHub repository is yielded as it stands.
C22_UriStrictWorkflowVerbatim ==
  Applied("extractRepoAndRef") =>
    LET att == app.args IN
    /\ (/\ att.repository = None
        /\ ~GitHubUri(att.uri)
        /\ \A i \in 1..Len(att.deps) : ~GitHubUri(att.deps[i]))
         => app.out.repository = None
    /\ (att.repository # None /\ ~GitHubRepository(att.repository))
         => app.out.repository = att.repository

\* a GitLab URL in workflow.repository, nothing usable elsewhere
C22_Witness ==
  /\ Applied("extractRepoAndRef")
  /\ app.args.repository = "https://gitlab.com/owner/repo"
  /\ app.args.uri = "::::"
  /\ app.args.deps = <<"https://gitlab.com/x/y">>
  /\ app.out.repository = "https://gitlab.com/owner/repo"

\* branch is the ref without refs/heads/, and nothing is set without has
DetailsWellFormed(d) ==
  /\ d.branch # None =>
       /\ d.ref # None
       /\ StartsWith(d.ref, "refs/heads/")
       /\ d.ref = "refs/heads/" \o d.branch
  /\ ~d.has => (d.repository = None /\ d.ref = None /\ d.branch = None)

\* (C23) The details getProvenanceDetails returns, whatever the attestation
\* lists of the registry's answers: a branch is set only together with a
\* refs/heads/ ref and is that ref without the prefix, so a tag ref gives no
\* branch also after an earlier heads ref; without has nothing is set.
C23_BranchFollowsRef ==
  Applied("lookups") => DetailsWellFormed(app.out.details)

\* a heads ref without repository, then a tag ref with one: the branch of the
\* first attestation is gone
C23_Witness ==
  /\ Applied("lookups")
  /\ app.args.ep1.status = "ok"
  /\ app.args.ep1.attestations = <<Attestation(None, "refs/heads/main", None, <<>>),
                                   Attestation("o/r1", "refs/tags/v1", None, <<>>)>>
  /\ app.out.details = [has |-> TRUE, repository |-> "o/r1",
                        ref |-> "refs/tags/v1", branch |-> None]

\* the position of the new version `to` of package `name` in the iteration
\* of run: the index of the package in changed, then of the version in its
\* current set
PackageIndex(name) == CHOOSE c \in 1..Len(changed) : changed[c].name = name

VersionIndex(name, to) ==
  CHOOSE v \in 1..Len(changed[PackageIndex(name)].current) :
    changed[PackageIndex(name)].current[v] = to

Before(x, y) ==
  \/ PackageIndex(x.name) < PackageIndex(y.name)
  \/ /\ x.name = y.name
     /\ VersionIndex(x.name, x.to) < VersionIndex(y.name, y.to)

\* (C24) events and warnings are in the order of the iteration over the
\* changed packages and their new versions, whatever the order in which the
\* concurrent lookups settle; the two events of one new version are the
\* trusted_publisher event first, the provenance event second.
C24_OrderStable ==
  /\ \A i, j \in 1..Len(events) :
       i < j =>
         \/ Before(events[i], events[j])
         \/ /\ events[i].name = events[j].name
            /\ events[i].to = events[j].to
            /\ events[i].downgradeType = "trusted_publisher"
            /\ events[j].downgradeType = "provenance"
  /\ \A i, j \in 1..Len(warnings) : i < j => Before(warnings[i], warnings[j])

\* events of both packages and of both new versions of the first one, the
\* later version with its two events, and a warning of each package
C24_Witness ==
  /\ pc = "done"
  /\ \E i, j, k, l \in 1..Len(events) :
       /\ i < j /\ j < k /\ k < l
       /\ events[i].name = "a" /\ events[i].to = "2"
       /\ events[j].name = "a" /\ events[j].to = "3"
       /\ events[j].downgradeType = "trusted_publisher"
       /\ events[k].name = "a" /\ events[k].to = "3"
       /\ events[k].downgradeType = "provenance"
       /\ events[l].name = "b"
  /\ \E m, n \in 1..Len(warnings) :
       m < n /\ warnings[m].name = "a" /\ warnings[n].name = "b"

-----------------------------------------------------------------------------
(* Claims about the caches and the termination of run *)

\* every entry of cache is an entry of its next value
Kept(cache, next) ==
  \A k \in DOMAIN cache : k \in DOMAIN next /\ next[k] = cache[k]

\* the call of lookup fn goes from idle to a request in flight
Queries(fn) == calls[fn].st = "idle" /\ calls'[fn].st \in {"ep1", "meta"}

\* (C25) no step of a run removes or changes an entry of one of the three
\* caches, and a call that asks the registry about a name@version is the
\* first call of its lookup to do so: the request was never issued before.
C25_CachesOnlyGrow ==
  [][/\ Kept(provenanceCache, provenanceCache')
     /\ Kept(provenanceDetailsCache, provenanceDetailsCache')
     /\ Kept(trustedPublisherCache, trustedPublisherCache')
     /\ \A fn \in Slots :
          Queries(fn) =>
            Request(fn, calls'[fn].name, calls'[fn].version) \notin requests]_vars

\* both new versions of "a" got their trusted-publisher event from the same
\* previous version: the second lookup of a@1 was answered from the cache
C25_Witness ==
  /\ pc = "done"
  /\ Cardinality({r \in requests : r.fn = "tp" /\ r.name = "a" /\ r.version = "1"}) = 1
  /\ \E i, j \in 1..Len(events) :
       /\ events[i].downgradeType = "trusted_publisher"
       /\ events[j].downgradeType = "trusted_publisher"
       /\ events[i].name = "a" /\ events[i].from = "1" /\ events[i].to = "2"
       /\ events[j].name = "a" /\ events[j].from = "1" /\ events[j].to = "3"

\* the requests a call in this state has issued so far
RequestsIssued(st) ==
  CASE st = "ep1" -> 1
    [] st = "ep2" -> 2
    [] st = "meta" -> 3
    [] OTHER -> 0

InFlight(fn) == calls[fn].st \in {"ep1", "ep2", "meta"}

\* (C26) a call with a request in flight changes only by moving on to a later
\* request or by returning, so hasProvenance and getProvenanceDetails return
\* after at most three requests and hasTrustedPublisher, which only ever asks
\* for the metadata, after one; while a request is in flight run is not
\* finished; and when every request completes, run eventually finishes.
C26_Terminates ==
  /\ [][\A fn \in Slots :
          (InFlight(fn) /\ calls'[fn] # calls[fn]) =>
            \/ calls'[fn].st = "done"
            \/ /\ fn # "tp"
               /\ RequestsIssued(calls'[fn].st) = RequestsIssued(calls[fn].st) + 1]_vars
  /\ [](InFlight("tp") => calls["tp"].st = "meta")
  /\ []((\E fn \in Slots : InFlight(fn)) => pc # "done")
  /\ <>(pc = "done")

\* run has finished after lookups of a new and of a previous version
C26_Witness ==
  /\ pc = "done"
  /\ Request("prov", "a", "2") \in requests
  /\ Request("det", "a", "2") \in requests
  /\ Request("tp", "a", "2") \in requests
  /\ Request("tp", "a", "1") \in requests

-----------------------------------------------------------------------------
(* Claims that compare two computations *)

\* (C27) against one registry and with fresh caches, hasProvenance returns
\* true exactly when getProvenanceDetails returns details whose has is true.
C27_SameAnswer ==
  Applied("lookups") => (app.out.has <=> app.out.details.has)

\* (C29) when run has finished, its events and warnings are those the
\* sequential detector computes from the same changed packages against the
\* registry the run has seen: each lookup answers what the run has cached.
C29_SameAsSequential ==
  pc = "done" =>
    LET seq == SequentialDetector(provenanceCache, provenanceDetailsCache,
                                  trustedPublisherCache)
    IN  events = seq.events /\ warnings = seq.warnings

\* a finished run with a downgrade event and a change warning
C29_Witness ==
  /\ pc = "done"
  /\ Len(events) > 0
  /\ Len(warnings) > 0
  /\ \E i \in 1..Len(changed) : Len(changed[i].previous) > 1

-----------------------------------------------------------------------------
(* Claims about the annotations and the outputs of run *)

\* the downgrade event counts toward failure under the fail-on-downgrade input
CountsTowardFailure(e) ==
  \/ FailOnDowngradeUnset
  \/ FailOnDowngradeIs("true")
  \/ FailOnDowngradeIs("any")
  \/ (FailOnDowngradeIs("only-provenance-loss") /\ e.downgradeType = "provenance")

LevelIf(failing) == IF failing THEN "error" ELSE "warning"

\* (C28) when run has finished without exception, the exit code is 1 exactly
\* when some annotation has level error; the events are annotated first and
\* the warnings after them, an event at level error exactly when it counts
\* toward failure, a warning at level error exactly when
\* fail-on-provenance-change is true, and at level warning otherwise.
C28_ExitCodeIffErrorAnnotation ==
  (pc = "done" /\ NoException) =>
    /\ (exitCode = 1 <=> \E i \in 1..Len(annotations) : annotations[i].level = "error")
    /\ Len(annotations) = Len(events) + Len(warnings)
    /\ \A i \in 1..Len(events) :
         annotations[i].level = LevelIf(CountsTowardFailure(events[i]))
    /\ \A i \in 1..Len(warnings) :
         annotations[Len(events) + i].level = LevelIf(FailOnProvChangeIs("true"))

\* a run that fails on a change warning alone: its only event does not count
C28_Witness ==
  /\ pc = "done"
  /\ FailOnDowngradeIs("only-provenance-loss")
  /\ FailOnProvChangeIs("true")
  /\ exitCode = 1
  /\ \E i \in 1..Len(annotations) : annotations[i].level = "warning"
  /\ \E i \in 1..Len(annotations) : annotations[i].level = "error"
  /\ \A i \in 1..Len(events) : events[i].downgradeType = "trusted_publisher"

\* how many times the output was written
Written(name) == Cardinality({i \in 1..Len(outputs) : outputs[i].name = name})

\* (C30) when run has finished without exception, it has written the
\* downgraded output and the changed output, each exactly once (the value
\* written is always a JSON array).
C30_OutputsWrittenOnce ==
  (pc = "done" /\ NoException) =>
    (Written("downgraded") = 1 /\ Written("changed") = 1)

====
